---- MODULE Spec2Model ----
(***************************************************************************)
(* A model of lorevault: manifest resolution (config.rs), the inclusion    *)
(* recursion guard (config.rs), variable resolution (variables.rs), the    *)
(* in-memory folder with its two write modes (memfolder.rs, main.rs), the  *)
(* edits and the build of one file (edits.rs, config.rs), clean (main.rs)  *)
(* and the cache directory with the Ctrl-C handler (main.rs, sources.rs).  *)
(*                                                                         *)
(* Paths are sequences of components, as std::path::Path::components()     *)
(* yields them: a leading "/" is the RootDir component, ".." is ParentDir. *)
(* Strings that take part in variable substitution are sequences of        *)
(* one-character strings.  Tag lists are sets where only membership is     *)
(* read, and sequences where the order is read.                            *)
(***************************************************************************)
EXTENDS Integers, Sequences, FiniteSets, TLC

VARIABLES
    manifests,      \* the manifest files reachable by reference: ref -> Config
    tags,           \* the tag list requested on the command line
    active,         \* result of Config::get_active on the root manifest
    pc,             \* position of the running command
    command,        \* the command (or the function) that is run
    next_deps,      \* check_recursion: the references of the current level
    level,          \* check_recursion: the loop counter i
    guard,          \* result of check_recursion
    stack,          \* the nested get_active / get_files calls, outermost first
    vars_in,        \* resolve_variable_inter_refs: the declared variables
    order,          \* the iteration order of the HashMap vars_in
    var_result,     \* result of resolve_variable_inter_refs
    conf,           \* the manifest as parsed, before set_variables
    source,         \* the FileSource the manifest was loaded from
    key_order,      \* the iteration order of the HashSet in vecset
    loaded,         \* result of Config::set_variables
    fs,             \* the filesystem: absolute path -> directory or file
    fs0,            \* the filesystem when the command started
    output,         \* sync: the target directory (also the reference)
    cwd,            \* sync: the current working directory
    skip_first,     \* sync: --skip-first-level
    no_confirm,     \* sync: --no-confirm
    memfolder,      \* sync: result of MemFolder::load_first_valid_with_ref
    fetches,        \* sync: path -> number of FileSource::fetch calls made for it
    iter_order,     \* sync: the iteration order of the HashMap in MemFolder
    sync_result,    \* sync: result of sync_folder
    call,           \* a function called on its own: its name and arguments
    returned,       \* what the call returned
    CACHEDIR,       \* the OnceCell<TempDir> of main.rs: <<>> or <<directory>>
    tmpdirs,        \* the temporary directories made so far, as they are on disk
    tmpdir,         \* init_cache_dir: the TempDir not yet moved into the cell
    handler,        \* position of the Ctrl-C handler thread
    cloned,         \* the clone_repository calls the command has completed
    exit_status,    \* <<>> while the process runs, then <<status>>
    first_run       \* sync run again: what the first run left behind

vars == <<manifests, tags, active, pc, command, next_deps, level, guard, stack,
          vars_in, order, var_result, conf, source, key_order, loaded,
          fs, fs0, output, cwd, skip_first, no_confirm, memfolder, fetches,
          iter_order, sync_result, call, returned,
          CACHEDIR, tmpdirs, tmpdir, handler, cloned, exit_status, first_run>>

guardVars == <<command, next_deps, level, guard, stack>>

varVars == <<vars_in, order, var_result>>

loadVars == <<conf, source, key_order, loaded>>

syncVars == <<fs, fs0, output, cwd, skip_first, no_confirm, memfolder, fetches,
              iter_order, sync_result>>

callVars == <<call, returned>>

cacheVars == <<CACHEDIR, tmpdirs, tmpdir, handler, cloned, exit_status>>

\* Bounds of the model
MaxLocal == 2       \* locally declared files of the root manifest
MaxChain == 11      \* longest chain of inclusions below the root
MaxStack == 13      \* nested get_active calls that are followed

\* Program constants
INCLUSION_RECURSION_LIMIT == 10
RESOLVE_PASS_LIMIT == 1000

----------------------------------------------------------------------------
(* Generic helpers *)

Range(s) == {s[i] : i \in 1..Len(s)}

SeqsUpTo(S, n) == UNION {[1..k -> S] : k \in 0..n}

Ok(v) == [ok |-> TRUE, val |-> v]
Err(kind, arg) == [ok |-> FALSE, kind |-> kind, arg |-> arg]

----------------------------------------------------------------------------
(* Paths *)

RootDir == "/"
ParentDir == ".."

is_absolute(p) == Len(p) > 0 /\ p[1] = RootDir

\* PathBuf::join / PathBuf::push: an absolute argument replaces the base.
join(base, p) == IF is_absolute(p) THEN p ELSE base \o p

format_subpath(subpath) ==
    IF is_absolute(subpath) THEN Tail(subpath) ELSE subpath

----------------------------------------------------------------------------
(* Files, edits, inclusions *)

FileEdit_is_active(e, ts) == e.tags = {} \/ (e.tags \cap ts) # {}

without_tags(e) == [e EXCEPT !.tags = {}]

\* include_edits keeping every edit, whatever its tags.
include_edits_bug(edits, ts) ==
    [i \in 1..Len(edits) |-> without_tags(edits[i])]

include_edits(edits, ts) ==
    LET keep == {i \in 1..Len(edits) : FileEdit_is_active(edits[i], ts)}
        RECURSIVE build(_)
        build(i) == IF i = 0 THEN <<>>
                    ELSE IF i \in keep THEN Append(build(i - 1), without_tags(edits[i]))
                    ELSE build(i - 1)
    IN  build(Len(edits))

get_tags(f) == f.tags

File_is_active(f, reqtags) ==
    get_tags(f) = {} \/ (get_tags(f) \cap Range(reqtags)) # {}

Config_tags(c) ==
    UNION ({get_tags(c.content[i]) : i \in 1..Len(c.content)}
           \cup UNION {{c.content[i].edits[j].tags : j \in 1..Len(c.content[i].edits)} :
                         i \in 1..Len(c.content)}
           \cup {c.inclusions[i].tags : i \in 1..Len(c.inclusions)})

\* local_loop without the collision error: the first declaration wins.
RECURSIVE local_loop_bug(_, _, _, _, _)
local_loop_bug(content, i, reqtags, tagged_paths, acc) ==
    IF ~acc.ok \/ i > Len(content) THEN acc
    ELSE LET item == content[i] IN
         IF ~File_is_active(item, reqtags)
            \/ (get_tags(item) = {} /\ item.path \in tagged_paths)
            \/ item.path \in Range(acc.val.paths)
         THEN local_loop_bug(content, i + 1, reqtags, tagged_paths, acc)
         ELSE local_loop_bug(content, i + 1, reqtags, tagged_paths,
                             Ok([new_content |-> Append(acc.val.new_content, item),
                                 paths |-> Append(acc.val.paths, item.path)]))

\* The first loop of get_active (config.rs 40-63) over the locally declared
\* files, from index i on; acc carries new_content and paths.
RECURSIVE local_loop(_, _, _, _, _)
local_loop(content, i, reqtags, tagged_paths, acc) ==
    IF ~acc.ok \/ i > Len(content) THEN acc
    ELSE LET item == content[i] IN
         IF ~File_is_active(item, reqtags)
         THEN local_loop(content, i + 1, reqtags, tagged_paths, acc)
         ELSE IF get_tags(item) = {} /\ item.path \in tagged_paths
         THEN local_loop(content, i + 1, reqtags, tagged_paths, acc)
         ELSE IF item.path \in Range(acc.val.paths)
         THEN Err("TwoFiles", item.path)
         ELSE local_loop(content, i + 1, reqtags, tagged_paths,
                         Ok([new_content |-> Append(acc.val.new_content, item),
                             paths |-> Append(acc.val.paths, item.path)]))

\* What one included file does to new_content and paths (config.rs 70-83).
include_one_bug(f2i, reqtags, tagged_paths, acc) ==
    IF File_is_active(f2i, reqtags)
    THEN Ok([new_content |-> Append(acc.val.new_content, f2i),
             paths |-> Append(acc.val.paths, f2i.path)])
    ELSE acc

\* include_one letting a tagged included file take the place of the entry
\* that has its path.
include_one_override(f2i, reqtags, tagged_paths, acc) ==
    IF File_is_active(f2i, reqtags)
    THEN IF f2i.path \in Range(acc.val.paths)
         THEN IF Cardinality(get_tags(f2i)) = 0
              THEN Err("TwoFiles", f2i.path)
              ELSE Ok([new_content |->
                          [k \in 1..Len(acc.val.new_content) |->
                              IF acc.val.new_content[k].path = f2i.path THEN f2i
                              ELSE acc.val.new_content[k]],
                       paths |-> acc.val.paths])
         ELSE Ok([new_content |-> Append(acc.val.new_content, f2i),
                  paths |-> Append(acc.val.paths, f2i.path)])
    ELSE acc

include_one(f2i, reqtags, tagged_paths, acc) ==
    IF File_is_active(f2i, reqtags)
    THEN IF f2i.path \in Range(acc.val.paths)
         THEN IF Cardinality(get_tags(f2i)) = 0 /\ f2i.path \in tagged_paths
              THEN acc
              ELSE Err("TwoFiles", f2i.path)
         ELSE Ok([new_content |-> Append(acc.val.new_content, f2i),
                  paths |-> Append(acc.val.paths, f2i.path)])
    ELSE acc

RECURSIVE included_files_loop(_, _, _, _, _)
included_files_loop(files, j, reqtags, tagged_paths, acc) ==
    IF ~acc.ok \/ j > Len(files) THEN acc
    ELSE included_files_loop(files, j + 1, reqtags, tagged_paths,
                             include_one(files[j], reqtags, tagged_paths, acc))

RECURSIVE get_active(_, _)
RECURSIVE Inclusion_get_files(_)

\* The second loop of get_active (config.rs 67-85) over the inclusions.
RECURSIVE inclusions_loop(_, _, _, _, _)
inclusions_loop(incs, i, reqtags, tagged_paths, acc) ==
    IF ~acc.ok \/ i > Len(incs) THEN acc
    ELSE LET files_to_include == Inclusion_get_files(incs[i]) IN
         IF ~files_to_include.ok THEN files_to_include
         ELSE inclusions_loop(incs, i + 1, reqtags, tagged_paths,
                  included_files_loop(files_to_include.val, 1, reqtags,
                                      tagged_paths, acc))

\* Config::from_general_path as the inclusions use it: the manifest behind a
\* reference, already run through set_variables.
from_general_path(ref) ==
    IF ref \in DOMAIN manifests THEN Ok(manifests[ref])
    ELSE Err("CouldNotLoad", ref)

\* get_files leaving the tags of the child's files on them.
Inclusion_get_files_bug(inc) ==
    LET config == from_general_path(inc.config) IN
    IF ~config.ok THEN config
    ELSE LET originals == get_active(config.val, inc.with_tags) IN
         IF ~originals.ok THEN originals
         ELSE Ok([k \in 1..Len(originals.val) |->
                    [path    |-> join(inc.subfolder, format_subpath(originals.val[k].path)),
                     tags    |-> originals.val[k].tags,
                     hash    |-> originals.val[k].hash,
                     sources |-> originals.val[k].sources,
                     edits   |-> include_edits(originals.val[k].edits, inc.tags)]])

Inclusion_get_files(inc) ==
    LET config == from_general_path(inc.config) IN
    IF ~config.ok THEN config
    ELSE LET originals == get_active(config.val, inc.with_tags) IN
         IF ~originals.ok THEN originals
         ELSE Ok([k \in 1..Len(originals.val) |->
                    [path    |-> join(inc.subfolder, format_subpath(originals.val[k].path)),
                     tags    |-> inc.tags,
                     hash    |-> originals.val[k].hash,
                     sources |-> originals.val[k].sources,
                     edits   |-> include_edits(originals.val[k].edits, inc.tags)]])

get_active(c, reqtags) ==
    IF ~c.variables_set THEN Err("VariablesNotSet", <<>>)
    ELSE LET defined_tags == Config_tags(c)
             undefined == {k \in 1..Len(reqtags) : reqtags[k] \notin defined_tags}
         IN
         IF undefined # {}
         THEN Err("UndefinedTag", reqtags[CHOOSE k \in undefined : \A m \in undefined : k <= m])
         ELSE LET tagged_paths ==
                      {c.content[i].path : i \in
                          {k \in 1..Len(c.content) :
                              (get_tags(c.content[k]) \cap Range(reqtags)) # {}}}
                  locals == local_loop(c.content, 1, reqtags, tagged_paths,
                                       Ok([new_content |-> <<>>, paths |-> <<>>]))
                  all == inclusions_loop(c.inclusions, 1, reqtags, tagged_paths, locals)
              IN  IF all.ok THEN Ok(all.val.new_content) ELSE all

----------------------------------------------------------------------------
(* Variable substitution (variables.rs): strings are sequences of          *)
(* one-character strings, variable names are such strings too.             *)

IsBrace(ch) == ch \in {"{", "}"}

\* "{{name}}", the format!("{{{{{}}}}}", key) of set_single_variable.
Placeholder(name) == <<"{", "{">> \o name \o <<"}", "}">>

\* The end of the longest run of characters other than braces from i on.
RECURSIVE run_end(_, _)
run_end(s, i) ==
    IF i <= Len(s) /\ ~IsBrace(s[i]) THEN run_end(s, i + 1) ELSE i

\* The regular expression \{\{([^{}]+)\}\} matched at position i: the
\* position of its last character, or 0 if it does not match there.
match_at(s, i) ==
    IF i + 1 <= Len(s) /\ s[i] = "{" /\ s[i + 1] = "{"
    THEN LET j == run_end(s, i + 2) IN
         IF j > i + 2 /\ j + 1 <= Len(s) /\ s[j] = "}" /\ s[j + 1] = "}"
         THEN j + 1 ELSE 0
    ELSE 0

\* captures_iter: the names of the non-overlapping matches, left to right.
RECURSIVE captures_from(_, _)
captures_from(s, i) ==
    IF i > Len(s) THEN <<>>
    ELSE LET e == match_at(s, i) IN
         IF e > 0 THEN <<SubSeq(s, i + 2, e - 2)>> \o captures_from(s, e + 1)
         ELSE captures_from(s, i + 1)

required_variables(s) == captures_from(s, 1)

starts_at(s, i, pat) ==
    i + Len(pat) - 1 <= Len(s) /\ SubSeq(s, i, i + Len(pat) - 1) = pat

\* str::replace: every non-overlapping occurrence of pat, left to right.
RECURSIVE replace_from(_, _, _, _)
replace_from(s, i, pat, to) ==
    IF i > Len(s) THEN <<>>
    ELSE IF starts_at(s, i, pat) THEN to \o replace_from(s, i + Len(pat), pat, to)
    ELSE <<s[i]>> \o replace_from(s, i + 1, pat, to)

str_replace(s, pat, to) == replace_from(s, 1, pat, to)

set_single_variable(s, key, value) == str_replace(s, Placeholder(key), value)

\* The set_variables of the trait on a String: every required key, in the
\* order required_variables lists them, must have a value in map.
RECURSIVE set_requested(_, _, _, _)
set_requested(requested, i, map, new) ==
    IF i > Len(requested) THEN Ok(new)
    ELSE IF requested[i] \notin DOMAIN map
    THEN Err("RequiredKeyNotInVariables", requested[i])
    ELSE set_requested(requested, i + 1, map,
                       set_single_variable(new, requested[i], map[requested[i]]))

String_set_variables(s, map) == set_requested(required_variables(s), 1, map, s)

insert(map, k, v) == [x \in DOMAIN map \cup {k} |-> IF x = k THEN v ELSE map[x]]

\* The body of the inner loop of resolve_variable_inter_refs, lines 221-231.
resolve_entry_bug(k, v, resolved) ==
    IF Len(required_variables(v)) = 0 THEN insert(resolved, k, v)
    ELSE LET filled == String_set_variables(v, resolved) IN
         IF filled.ok THEN insert(resolved, k, filled.val) ELSE insert(resolved, k, v)

resolve_entry(k, v, resolved) ==
    IF Len(required_variables(v)) = 0 THEN insert(resolved, k, v)
    ELSE LET filled == String_set_variables(v, resolved) IN
         IF filled.ok THEN insert(resolved, k, filled.val) ELSE resolved

\* One pass over the map in its iteration order, from entry i on.
RECURSIVE resolve_pass(_, _, _, _)
resolve_pass(vin, ord, i, resolved) ==
    IF i > Len(ord) THEN resolved
    ELSE resolve_pass(vin, ord, i + 1, resolve_entry(ord[i], vin[ord[i]], resolved))

\* The outer loop, lines 218-245, from pass number pass on; counts lists
\* resolved.len() after every pass that was run.
RECURSIVE resolve_loop(_, _, _, _, _, _)
resolve_loop(vin, ord, pass, resolved, current_resolved_count, counts) ==
    IF pass >= RESOLVE_PASS_LIMIT
    THEN Err("InterReference", <<>>) @@ [counts |-> counts]
    ELSE LET r == resolve_pass(vin, ord, 1, resolved)
             n == Cardinality(DOMAIN r) IN
         IF n = current_resolved_count
         THEN Err("InterReference", <<>>) @@ [counts |-> Append(counts, n)]
         ELSE IF n = Cardinality(DOMAIN vin)
         THEN Ok(r) @@ [counts |-> Append(counts, n)]
         ELSE resolve_loop(vin, ord, pass + 1, r, n, Append(counts, n))

resolve_variable_inter_refs(vin, ord) ==
    resolve_loop(vin, ord, 0, <<>>, 0, <<>>)

----------------------------------------------------------------------------
(* Config::set_variables: SpecLoad.  In this part the path of a file and   *)
(* the fields of sources, edits and inclusions are strings.                *)

NameSet(s) == Range(required_variables(s))

\* The elements of the sequence ord that are in S, in the order of ord.
RECURSIVE restrict_from(_, _, _)
restrict_from(ord, i, S) ==
    IF i > Len(ord) THEN <<>>
    ELSE IF ord[i] \in S THEN <<ord[i]>> \o restrict_from(ord, i + 1, S)
    ELSE restrict_from(ord, i + 1, S)

restrict(ord, S) == restrict_from(ord, 1, S)

FileSource_required_variables(src) ==
    IF src.type = "text"
    THEN IF src.ignore_variables THEN {} ELSE NameSet(src.content)
    ELSE NameSet(src.s)

FileSource_set_single_variable(src, key, value) ==
    IF src.type = "text"
    THEN IF src.ignore_variables THEN src
         ELSE [src EXCEPT !.content = set_single_variable(@, key, value)]
    ELSE [src EXCEPT !.s = set_single_variable(@, key, value)]

FileEdit_required_variables(e) ==
    IF e.type = "replace"
    THEN IF e.ignore_variables THEN {} ELSE NameSet(e.from) \cup NameSet(e.to)
    ELSE IF e.type = "insert"
    THEN IF e.ignore_variables THEN {} ELSE NameSet(e.content)
    ELSE {}

FileEdit_set_single_variable(e, key, value) ==
    IF e.type = "replace"
    THEN [e EXCEPT !.from = set_single_variable(@, key, value),
                   !.to = set_single_variable(@, key, value)]
    ELSE IF e.type = "insert"
    THEN [e EXCEPT !.content = set_single_variable(@, key, value)]
    ELSE e

File_required_variables(f) ==
    NameSet(f.path)
    \cup UNION {FileSource_required_variables(f.sources[i]) : i \in 1..Len(f.sources)}
    \cup UNION {FileEdit_required_variables(f.edits[i]) : i \in 1..Len(f.edits)}

File_set_single_variable_bug(f, key, value) ==
    [f EXCEPT !.path = set_single_variable(@, key, value),
              !.edits = [i \in 1..Len(f.edits) |->
                           FileEdit_set_single_variable(f.edits[i], key, value)]]

File_set_single_variable(f, key, value) ==
    [f EXCEPT !.path = set_single_variable(@, key, value),
              !.sources = [i \in 1..Len(f.sources) |->
                             FileSource_set_single_variable(f.sources[i], key, value)],
              !.edits = [i \in 1..Len(f.edits) |->
                           FileEdit_set_single_variable(f.edits[i], key, value)]]

Inclusion_required_variables(inc) == NameSet(inc.subfolder) \cup NameSet(inc.config)

Inclusion_set_single_variable(inc, key, value) ==
    [inc EXCEPT !.config = set_single_variable(@, key, value),
                !.subfolder = set_single_variable(@, key, value)]

\* set_variables of the trait on Vec<File>: the keys that vecset collected,
\* in the iteration order of its HashSet, each applied to every file.
RECURSIVE Files_set_requested(_, _, _, _)
Files_set_requested(requested, i, map, new) ==
    IF i > Len(requested) THEN Ok(new)
    ELSE IF requested[i] \notin DOMAIN map
    THEN Err("RequiredKeyNotInVariables", requested[i])
    ELSE Files_set_requested(requested, i + 1, map,
             [j \in 1..Len(new) |->
                 File_set_single_variable(new[j], requested[i], map[requested[i]])])

Files_set_variables(content, map, hash_order) ==
    Files_set_requested(
        restrict(hash_order, UNION {File_required_variables(content[j]) : j \in 1..Len(content)}),
        1, map, content)

\* The same on Vec<Inclusion>.
RECURSIVE Inclusions_set_requested(_, _, _, _)
Inclusions_set_requested(requested, i, map, new) ==
    IF i > Len(requested) THEN Ok(new)
    ELSE IF requested[i] \notin DOMAIN map
    THEN Err("RequiredKeyNotInVariables", requested[i])
    ELSE Inclusions_set_requested(requested, i + 1, map,
             [j \in 1..Len(new) |->
                 Inclusion_set_single_variable(new[j], requested[i], map[requested[i]])])

Inclusions_set_variables(incs, map, hash_order) ==
    Inclusions_set_requested(
        restrict(hash_order, UNION {Inclusion_required_variables(incs[j]) : j \in 1..Len(incs)}),
        1, map, incs)

SELF(suffix) == <<"SELF_", suffix>>

starts_with_SELF(k) == Len(k) > 0 /\ k[1] = "SELF_"

\* The position of the last "/" of a path string, 0 if there is none.
last_slash(s) ==
    LET at == {i \in 1..Len(s) : s[i] = "/"} IN
    IF at = {} THEN 0 ELSE CHOOSE i \in at : \A j \in at : j <= i

file_name(s) == SubSeq(s, last_slash(s) + 1, Len(s))

parent(s) == SubSeq(s, 1, last_slash(s) - 1)

\* The variables that describe where the manifest came from, lines 163-218.
\* The repo of a Git source is a URL and the path of a Local source is its
\* canonical form.
self_variables(src) ==
    IF src.type = "git"
    THEN [k \in {SELF("ID"), SELF("REPO"), SELF("NAME"), SELF("ROOT")} |->
            IF k = SELF("ID") THEN src.id
            ELSE IF k = SELF("REPO") THEN src.repo
            ELSE IF k = SELF("NAME") THEN file_name(src.path)
            ELSE src.repo \o <<"#">> \o src.id \o <<":">>]
    ELSE [k \in {SELF("PARENT"), SELF("ROOT"), SELF("NAME")} |->
            IF k = SELF("NAME") THEN file_name(src.path) ELSE parent(src.path)]

Config_set_variables(c, src, map_order, hash_order) ==
    IF \E k \in DOMAIN c.variables : starts_with_SELF(k)
    THEN Err("ProtectedVariable", <<>>)
    ELSE LET selfs == self_variables(src)
             vs == [k \in DOMAIN c.variables \cup DOMAIN selfs |->
                      IF k \in DOMAIN selfs THEN selfs[k] ELSE c.variables[k]]
             resolved == resolve_variable_inter_refs(vs, restrict(map_order, DOMAIN vs))
         IN
         IF ~resolved.ok THEN Err(resolved.kind, resolved.arg)
         ELSE LET content == Files_set_variables(c.content, resolved.val, hash_order) IN
              IF ~content.ok THEN content
              ELSE LET incs == Inclusions_set_variables(c.inclusions, resolved.val, hash_order) IN
                   IF ~incs.ok THEN incs
                   ELSE Ok([variables |-> c.variables, variables_set |-> TRUE,
                            content |-> content.val, inclusions |-> incs.val])

----------------------------------------------------------------------------
(* Resolving the active files of a manifest: SpecActive *)

None == "none"

MkFile(path, ts, edits) ==
    [path |-> path, tags |-> ts, hash |-> None,
     sources |-> <<"src">>, edits |-> edits]

MkEdit(ts) == [type |-> "insert", position |-> "append", content |-> "x", tags |-> ts]

MkConfig(content, inclusions) ==
    [variables_set |-> TRUE, content |-> content, inclusions |-> inclusions]

MkInclusion(ref, ts, with_tags, subfolder) ==
    [config |-> ref, tags |-> ts, with_tags |-> with_tags, subfolder |-> subfolder]

\* The files the root manifest may declare.
RootFiles ==
    {MkFile(<<"a">>, {}, <<>>), MkFile(<<"a">>, {"t"}, <<>>),
     MkFile(<<"a">>, {"u"}, <<>>), MkFile(<<"d", "a">>, {}, <<>>),
     MkFile(<<RootDir, "a">>, {}, <<>>)}

\* The inclusions the root manifest may declare.
RootInclusions ==
    {MkInclusion(r, ts, <<>>, sub) :
        r \in {"c1", "c2"}, ts \in {{}, {"t"}}, sub \in {<<>>, <<"d">>}}
    \cup {MkInclusion("c1", ts, <<"u">>, sub) : ts \in {{}, {"t"}}, sub \in {<<>>, <<"d">>}}

InclusionLists ==
    {<<>>} \cup {<<i>> : i \in RootInclusions}
           \cup {<<i, j>> : i \in RootInclusions, j \in RootInclusions}

\* The included manifests: c1 declares a tagged and an untagged file and
\* includes c2; c2 declares one file under an absolute path.
ChildManifests ==
    [c1 |-> MkConfig(<<MkFile(<<"a">>, {}, <<MkEdit({}), MkEdit({"t"}), MkEdit({"u"})>>),
                       MkFile(<<"b">>, {"u"}, <<>>)>>,
                     <<MkInclusion("c2", {"u"}, <<>>, <<"e">>)>>),
     c2 |-> MkConfig(<<MkFile(<<RootDir, "a">>, {}, <<MkEdit({"t"})>>)>>, <<>>)]

RequestedTags == {<<>>, <<"t">>, <<"u">>, <<"t", "u">>, <<"x">>}

IdleVars ==
    /\ vars_in = <<>>
    /\ order = <<>>
    /\ var_result = None

IdleLoad ==
    /\ conf = None
    /\ source = None
    /\ key_order = <<>>
    /\ loaded = None

NoSnapshot == Err("NoSnapshot", <<>>)

IdleSync ==
    /\ fs = <<>> /\ fs0 = <<>>
    /\ output = <<>> /\ cwd = <<>>
    /\ skip_first = FALSE /\ no_confirm = FALSE
    /\ memfolder = NoSnapshot
    /\ fetches = <<>>
    /\ iter_order = <<>>
    /\ sync_result = None

IdleCall ==
    /\ call = None
    /\ returned = None

NoRun == Err("NoRun", <<>>)

IdleCache ==
    /\ CACHEDIR = <<>>
    /\ tmpdirs = <<>>
    /\ tmpdir = <<>>
    /\ handler = "unset"
    /\ cloned = 0
    /\ exit_status = <<>>
    /\ first_run = NoRun

IdleGuard ==
    /\ command = None
    /\ next_deps = {}
    /\ level = 0
    /\ guard = None
    /\ stack = <<>>

InitActive ==
    /\ \E content \in SeqsUpTo(RootFiles, MaxLocal), incs \in InclusionLists :
          manifests = [r \in {"root", "c1", "c2"} |->
                         IF r = "root" THEN MkConfig(content, incs)
                         ELSE ChildManifests[r]]
    /\ tags \in RequestedTags
    /\ active = None
    /\ pc = "start"
    /\ IdleGuard
    /\ IdleVars
    /\ IdleLoad
    /\ IdleSync
    /\ IdleCache
    /\ IdleCall

GetActive ==
    /\ pc = "start"
    /\ active' = get_active(manifests["root"], tags)
    /\ pc' = "resolved"
    /\ UNCHANGED <<cacheVars, first_run, manifests, tags, guardVars, varVars, loadVars, syncVars, callVars>>

NextActive == GetActive

SpecActive == InitActive /\ [][NextActive]_vars

\* The active candidates that arrive through the inclusions of the root.
IncludedCandidates ==
    UNION {LET incl == Inclusion_get_files(manifests["root"].inclusions[i]) IN
           IF incl.ok THEN {f \in Range(incl.val) : File_is_active(f, tags)} ELSE {} :
           i \in 1..Len(manifests["root"].inclusions)}

LocalCandidates ==
    {f \in Range(manifests["root"].content) : File_is_active(f, tags)}

\* C1: a successful get_active never returns two entries, local or
\* included, with the same target path.
C1_NoDuplicatePaths ==
    (pc = "resolved" /\ active.ok) =>
        \A i, j \in 1..Len(active.val) :
            i # j => active.val[i].path # active.val[j].path

\* A successful resolution that returned a local and an included entry
\* while a candidate with the path of a returned entry was dropped.
C1_Witness ==
    /\ pc = "resolved" /\ active.ok
    /\ \E i, j \in 1..Len(active.val) :
          /\ active.val[i] \in LocalCandidates
          /\ active.val[j] \in IncludedCandidates
    /\ \E f \in IncludedCandidates :
          /\ f \notin Range(active.val)
          /\ \E i \in 1..Len(active.val) : active.val[i].path = f.path

\* The locally declared files of the root manifest.
LocalContent == manifests["root"].content

\* The request passes the tag validation of get_active.
ValidRequest == Range(tags) \subseteq Config_tags(manifests["root"])

\* The local declarations with path p that are tagged and active.
TaggedActiveAt(p) ==
    {i \in 1..Len(LocalContent) :
        LocalContent[i].path = p /\ (get_tags(LocalContent[i]) \cap Range(tags)) # {}}

\* The local declarations with path p that are untagged.
UntaggedAt(p) ==
    {i \in 1..Len(LocalContent) :
        LocalContent[i].path = p /\ get_tags(LocalContent[i]) = {}}

LocalPaths == {LocalContent[i].path : i \in 1..Len(LocalContent)}

\* The paths at which two tagged-and-active local files collide, or two
\* untagged ones with no tagged-and-active file at that path.
LocalCollisions ==
    {p \in LocalPaths :
        \/ Cardinality(TaggedActiveAt(p)) >= 2
        \/ (TaggedActiveAt(p) = {} /\ Cardinality(UntaggedAt(p)) >= 2)}

\* C11: for a request of declared tags, among the local files of one path
\* an untagged file is dropped and the tagged one returned when exactly one
\* tagged-and-active file has the path (the path is then named by an error
\* only if an inclusion brings it too); two tagged-and-active files, or two
\* untagged files without a tagged-and-active one, make get_active fail with
\* the error that names such a path.
C11_LocalCollisionRule ==
    (pc = "resolved" /\ ValidRequest) =>
        /\ \A p \in LocalPaths :
              Cardinality(TaggedActiveAt(p)) = 1 =>
                 IF active.ok
                 THEN {i \in 1..Len(active.val) : active.val[i].path = p}
                        = {i \in 1..Len(active.val) :
                             active.val[i] = LocalContent[CHOOSE k \in TaggedActiveAt(p) : TRUE]}
                      /\ \E i \in 1..Len(active.val) : active.val[i].path = p
                 ELSE (active.kind = "TwoFiles" /\ active.arg = p) =>
                         \E f \in IncludedCandidates : f.path = p
        /\ LocalCollisions # {} =>
              (~active.ok /\ active.kind = "TwoFiles" /\ active.arg \in LocalCollisions)

\* A successful resolution in which the untagged declaration of a path was
\* dropped for the tagged and active declaration of the same path.
C11_Witness ==
    /\ pc = "resolved" /\ active.ok /\ ValidRequest
    /\ \E p \in LocalPaths :
          /\ Cardinality(TaggedActiveAt(p)) = 1
          /\ UntaggedAt(p) # {}
          /\ \E i \in 1..Len(active.val) : active.val[i].path = p /\ get_tags(active.val[i]) # {}

\* The paths of the untagged local files that the local declarations alone
\* return, and that an active included file has too.
OverridePaths ==
    {p \in LocalPaths :
        /\ UntaggedAt(p) # {} /\ TaggedActiveAt(p) = {}
        /\ \E f \in IncludedCandidates : f.path = p}

\* The active included files with path p: <<i, k>> is the k-th file of the
\* i-th inclusion of the root.
IncludedAt(p) ==
    UNION {LET incl == Inclusion_get_files(manifests["root"].inclusions[i]) IN
           IF incl.ok
           THEN {<<i, k>> : k \in {n \in 1..Len(incl.val) :
                                     incl.val[n].path = p /\ File_is_active(incl.val[n], tags)}}
           ELSE {} :
           i \in 1..Len(manifests["root"].inclusions)}

\* The paths at which an active included file meets another active included
\* file or a tagged-and-active local file.
OtherInclusionCollisions ==
    {f.path : f \in {g \in IncludedCandidates :
                        Cardinality(IncludedAt(g.path)) >= 2 \/ TaggedActiveAt(g.path) # {}}}

\* What get_active returns for the root manifest without its inclusions.
WithoutInclusions ==
    local_loop(LocalContent, 1, tags,
               {LocalContent[i].path : i \in UNION {TaggedActiveAt(p) : p \in LocalPaths}},
               Ok([new_content |-> <<>>, paths |-> <<>>]))

\* C12: for a request of declared tags whose local files do not collide,
\* an active included file with the path of a returned untagged local file
\* makes get_active fail with the error naming such a path, tagged or not
\* (or naming the path of another collision of an included file, when the
\* manifest has one); and a successful get_active begins with exactly the
\* files returned without the inclusions.
C12_InclusionsNeverOverride ==
    (pc = "resolved" /\ ValidRequest /\ LocalCollisions = {}) =>
        /\ OverridePaths # {} =>
              (/\ ~active.ok /\ active.kind = "TwoFiles"
               /\ active.arg \in OverridePaths \cup OtherInclusionCollisions
               /\ OtherInclusionCollisions = {} => active.arg \in OverridePaths)
        /\ active.ok =>
              /\ WithoutInclusions.ok
              /\ Len(active.val) >= Len(WithoutInclusions.val.new_content)
              /\ SubSeq(active.val, 1, Len(WithoutInclusions.val.new_content))
                   = WithoutInclusions.val.new_content

\* A resolution that failed on the path of a returned untagged local file
\* because a tagged and active included file has the same path.
C12_Witness ==
    /\ pc = "resolved" /\ ValidRequest /\ LocalCollisions = {}
    /\ ~active.ok /\ active.kind = "TwoFiles"
    /\ active.arg \in OverridePaths
    /\ \E f \in IncludedCandidates : f.path = active.arg /\ get_tags(f) # {}

\* The paths that only inclusions bring, through exactly two active included
\* files of which one is untagged and the other tagged.
IncludedTaggedOverUntagged ==
    {f.path : f \in {g \in IncludedCandidates :
        /\ g.path \notin LocalPaths
        /\ Cardinality(IncludedAt(g.path)) = 2
        /\ \E h1, h2 \in IncludedCandidates :
              /\ h1.path = g.path /\ h2.path = g.path
              /\ get_tags(h1) = {} /\ get_tags(h2) # {}}}

\* C13: the collision rule is the same for included files as for local ones:
\* when an untagged and a tagged-and-active included file share a path (and
\* nothing else collides), get_active succeeds and returns for that path the
\* tagged file only.
C13_UniformRuleForInclusions ==
    (/\ pc = "resolved" /\ ValidRequest
     /\ LocalCollisions = {} /\ OverridePaths = {}
     /\ OtherInclusionCollisions = IncludedTaggedOverUntagged) =>
        \A p \in IncludedTaggedOverUntagged :
            /\ active.ok
            /\ \E i \in 1..Len(active.val) : active.val[i].path = p
            /\ \A i \in 1..Len(active.val) :
                  active.val[i].path = p => get_tags(active.val[i]) # {}

----------------------------------------------------------------------------
(* The inclusion recursion guard and the commands that resolve a manifest: *)
(* SpecGuard.  References are numbers; every reference is an absolute path *)
(* or a repository locator, which from_general_path loads whatever         *)
(* allow_local is.  Every manifest declares one untagged file and its      *)
(* inclusions are untagged, so get_active expands every inclusion.         *)

GuardConfig(children) ==
    MkConfig(<<MkFile(<<"a">>, {}, <<>>)>>,
             [k \in 1..Len(children) |-> MkInclusion(children[k], {}, <<>>, <<"d">>)])

\* The root includes 1, 1 includes 2, ... down to d.
ChainWorld(d) ==
    [n \in 0..d |-> GuardConfig(IF n < d THEN <<n + 1>> ELSE <<>>)]

\* A chain of k inclusions whose last manifest includes manifest j again.
CycleWorld(k, j) ==
    [n \in 0..k |-> GuardConfig(IF n < k THEN <<n + 1>> ELSE <<j>>)]

\* Two manifests of one level include the same manifest.
DiamondWorld ==
    [n \in 0..3 |-> GuardConfig(IF n = 0 THEN <<1, 2>> ELSE IF n = 3 THEN <<>> ELSE <<3>>)]

\* One branch ends, the other leads back to the root.
BranchCycleWorld ==
    [n \in 0..2 |-> GuardConfig(IF n = 0 THEN <<1, 2>> ELSE IF n = 1 THEN <<>> ELSE <<0>>)]

GuardWorlds ==
    {ChainWorld(d) : d \in 0..MaxChain}
    \cup {CycleWorld(c[1], c[2]) : c \in {<<0, 0>>, <<1, 0>>, <<1, 1>>, <<2, 0>>, <<2, 1>>}}
    \cup {DiamondWorld, BranchCycleWorld}

\* The commands of main.rs that resolve a manifest; "check_recursion" is the
\* guard run on its own, as no command does.
ResolvingCommands == {"sync", "config", "list", "clean"}

InitGuard ==
    /\ manifests \in GuardWorlds
    /\ command \in ResolvingCommands \cup {"check_recursion"}
    /\ tags = <<>>
    /\ active = None
    /\ pc = "start"
    /\ next_deps = {}
    /\ level = 0
    /\ guard = None
    /\ stack = <<>>
    /\ IdleVars
    /\ IdleLoad
    /\ IdleSync
    /\ IdleCache
    /\ IdleCall

inclusion_refs(c) == {c.inclusions[k].config : k \in 1..Len(c.inclusions)}

get_next_inclusion_level_bug(cfgs) ==
    UNION {inclusion_refs(manifests[cfg]) : cfg \in cfgs} \ cfgs

get_next_inclusion_level(cfgs) ==
    UNION {inclusion_refs(manifests[cfg]) : cfg \in cfgs}

\* check_recursion, line 397.
CheckRecursionStart ==
    /\ pc = "start" /\ command = "check_recursion"
    /\ next_deps' = {0}
    /\ level' = 0
    /\ pc' = "guard"
    /\ UNCHANGED <<cacheVars, first_run, manifests, tags, active, command, guard, stack, varVars, loadVars, syncVars, callVars>>

\* One iteration of the loop of check_recursion, lines 398-405, and the
\* error after the last one, lines 407-410.
CheckRecursionLevel ==
    /\ pc = "guard" /\ level < INCLUSION_RECURSION_LIMIT
    /\ LET deps == get_next_inclusion_level(next_deps) IN
       /\ next_deps' = deps
       /\ IF deps = {}
          THEN guard' = Ok(<<>>) /\ pc' = "done" /\ level' = level
          ELSE /\ level' = level + 1
               /\ IF level + 1 = INCLUSION_RECURSION_LIMIT
                  THEN guard' = Err("TooDeepOrRecursive", INCLUSION_RECURSION_LIMIT)
                       /\ pc' = "done"
                  ELSE guard' = guard /\ pc' = "guard"
    /\ UNCHANGED <<cacheVars, first_run, manifests, tags, active, command, stack, varVars, loadVars, syncVars, callVars>>

\* sync_folder line 116, get_active_paths line 188: the root manifest is
\* loaded and get_active is entered; frame.idx is the inclusion that the
\* second loop of get_active is at.
LoadRoot ==
    /\ pc = "start" /\ command \in ResolvingCommands
    /\ stack' = <<[config |-> 0, idx |-> 1]>>
    /\ pc' = "resolving"
    /\ UNCHANGED <<cacheVars, first_run, manifests, tags, active, command, next_deps, level, guard, varVars, loadVars, syncVars, callVars>>

\* config.rs line 68 and lines 355-358: get_files loads the included
\* manifest and calls its get_active.
Descend ==
    /\ pc = "resolving" /\ stack # <<>>
    /\ Len(stack) < MaxStack
    /\ LET top == stack[Len(stack)] IN
       /\ top.idx <= Len(manifests[top.config].inclusions)
       /\ stack' = Append(stack,
                     [config |-> manifests[top.config].inclusions[top.idx].config,
                      idx |-> 1])
    /\ UNCHANGED <<cacheVars, first_run, manifests, tags, active, pc, command, next_deps, level, guard, varVars, loadVars, syncVars, callVars>>

\* get_active of the innermost manifest is through its inclusions and returns.
Return ==
    /\ pc = "resolving" /\ stack # <<>>
    /\ LET top == stack[Len(stack)]
           n == Len(stack) IN
       /\ top.idx > Len(manifests[top.config].inclusions)
       /\ IF n = 1
          THEN stack' = <<>> /\ pc' = "done"
          ELSE /\ stack' = [k \in 1..(n - 1) |->
                              IF k = n - 1 THEN [stack[k] EXCEPT !.idx = @ + 1]
                              ELSE stack[k]]
               /\ pc' = pc
    /\ UNCHANGED <<cacheVars, first_run, manifests, tags, active, command, next_deps, level, guard, varVars, loadVars, syncVars, callVars>>

NextGuard == CheckRecursionStart \/ CheckRecursionLevel \/ LoadRoot \/ Descend \/ Return

SpecGuard == InitGuard /\ [][NextGuard]_vars

\* The manifests reachable from the root through n or fewer inclusions.
RECURSIVE ReachableWithin(_)
ReachableWithin(n) ==
    IF n = 0 THEN {0}
    ELSE LET r == ReachableWithin(n - 1) IN
         r \cup UNION {inclusion_refs(manifests[m]) : m \in r}

Reachable == ReachableWithin(Cardinality(DOMAIN manifests))

\* The manifests at the end of some chain of exactly n inclusions from m.
RECURSIVE AfterSteps(_, _)
AfterSteps(m, n) ==
    IF n = 0 THEN {m}
    ELSE UNION {inclusion_refs(manifests[x]) : x \in AfterSteps(m, n - 1)}

HasCycle == \E m \in Reachable : \E n \in 1..Cardinality(DOMAIN manifests) : m \in AfterSteps(m, n)

\* The longest chain of inclusions below the root (of an acyclic graph).
Depth == CHOOSE d \in 0..Cardinality(DOMAIN manifests) :
            AfterSteps(0, d) # {} /\ AfterSteps(0, d + 1) = {}

\* C2: a command that resolves a manifest has run check_recursion, with
\* success, before get_active expands the first inclusion.
C2_GuardBeforeExpansion ==
    (command \in ResolvingCommands /\ Len(stack) > 1) =>
        (guard # None /\ guard.ok)

\* C3: check_recursion returns Ok for every acyclic inclusion graph of
\* depth d <= 10 and an error for every graph with a reachable cycle.
C3_DepthUpToLimitAccepted ==
    (command = "check_recursion" /\ pc = "done") =>
        /\ (~HasCycle /\ Depth <= INCLUSION_RECURSION_LIMIT) => guard.ok
        /\ HasCycle => ~guard.ok

----------------------------------------------------------------------------
(* resolve_variable_inter_refs on its own: SpecVars *)

VarNames == {<<"a">>, <<"b">>, <<"c">>}

\* The declared values: plain text, references to declared and undeclared
\* names, two references in one value, a reference in braces (as in
\* test_var_inter_ref) and a value that is an opening brace pair.
VarValues ==
    {<<"v">>,
     Placeholder(<<"a">>), Placeholder(<<"b">>), Placeholder(<<"c">>),
     <<"x">> \o Placeholder(<<"a">>) \o Placeholder(<<"b">>),
     Placeholder(Placeholder(<<"a">>)),
     Placeholder(<<"u">>),
     <<"{", "{">>}

VarMaps == UNION {[D -> VarValues] : D \in SUBSET VarNames}

Permutations_of(D) ==
    {o \in [1..Cardinality(D) -> D] : \A i, j \in 1..Cardinality(D) : o[i] = o[j] => i = j}

InitVars ==
    /\ vars_in \in VarMaps
    /\ order \in Permutations_of(DOMAIN vars_in)
    /\ var_result = None
    /\ pc = "start"
    /\ manifests = <<>> /\ tags = <<>> /\ active = None
    /\ IdleGuard
    /\ IdleLoad
    /\ IdleSync
    /\ IdleCache
    /\ IdleCall

ResolveVariables ==
    /\ pc = "start"
    /\ var_result' = resolve_variable_inter_refs(vars_in, order)
    /\ pc' = "done"
    /\ UNCHANGED <<cacheVars, first_run, manifests, tags, active, guardVars, vars_in, order, loadVars, syncVars, callVars>>

NextVars == ResolveVariables

SpecVars == InitVars /\ [][NextVars]_vars

\* The declared names a value refers to, and the names it reaches.
refs(k) == Range(required_variables(vars_in[k]))

RECURSIVE refs_within(_, _)
refs_within(k, n) ==
    IF n = 0 THEN {}
    ELSE LET r == refs_within(k, n - 1) IN
         refs(k) \cup r \cup UNION {refs(x) : x \in r \cap DOMAIN vars_in}

reaches(k) == refs_within(k, Cardinality(DOMAIN vars_in))

HasVarCycle == \E k \in DOMAIN vars_in : k \in reaches(k)

AllDeclared == \A k \in DOMAIN vars_in : refs(k) \subseteq DOMAIN vars_in

\* s with every {{name}} it contains replaced by map[name], in one scan.
RECURSIVE substituted_from(_, _, _)
substituted_from(s, i, map) ==
    IF i > Len(s) THEN <<>>
    ELSE LET e == match_at(s, i) IN
         IF e > 0 THEN map[SubSeq(s, i + 2, e - 2)] \o substituted_from(s, e + 1, map)
         ELSE <<s[i]>> \o substituted_from(s, i + 1, map)

\* C4: for every map, the empty one included, whose references are all
\* declared and acyclic, the resolution returns Ok with exactly the declared
\* keys, each value the declared one with every {{name}} replaced by the
\* resolved value of name, whatever the iteration order.
C4_AcyclicResolves ==
    (pc = "done" /\ AllDeclared /\ ~HasVarCycle) =>
        /\ var_result.ok
        /\ DOMAIN var_result.val = DOMAIN vars_in
        /\ \A k \in DOMAIN vars_in :
              var_result.val[k] = substituted_from(vars_in[k], 1, var_result.val)
        /\ \A o \in Permutations_of(DOMAIN vars_in) :
              LET other == resolve_variable_inter_refs(vars_in, o) IN
              other.ok /\ other.val = var_result.val

\* C5: a map in which a variable refers to itself, directly or through
\* others, is answered with an error, in the first pass that resolves no
\* new variable.
C5_CycleFails ==
    (pc = "done" /\ HasVarCycle) =>
        /\ ~var_result.ok
        /\ LET cs == <<0>> \o var_result.counts
               n == Len(var_result.counts) IN
           /\ n >= 1
           /\ cs[n + 1] = cs[n]
           /\ \A i \in 1..(n - 1) : cs[i + 1] > cs[i]

\* An indirect cycle beside a variable that was resolved in an earlier pass.
C5_Witness ==
    /\ pc = "done" /\ HasVarCycle
    /\ \E k \in DOMAIN vars_in : k \notin refs(k) /\ k \in reaches(k)
    /\ Len(var_result.counts) >= 2

----------------------------------------------------------------------------
(* Loading a manifest: SpecLoad *)

NameA == <<"a">>
NameE == <<"e">>

\* The [var] tables: a and e plain, referring to each other, e referring to
\* a inside braces (the shape of test_var_inter_ref), and a protected name.
LoadVariables ==
    {[k \in D |-> IF k = NameA THEN va ELSE IF k = NameE THEN ve ELSE <<"z">>] :
        D \in SUBSET {NameA, NameE, SELF("X")},
        va \in {<<"v">>, Placeholder(NameE)},
        ve \in {<<"w">>, Placeholder(NameA), Placeholder(Placeholder(NameA))}}

LoadPaths ==
    {<<"p">>, Placeholder(NameA), Placeholder(NameE),
     Placeholder(NameA) \o Placeholder(NameA)}

TextSource(content, ignore) ==
    [type |-> "text", content |-> content, ignore_variables |-> ignore]

AutoSource(str) == [type |-> "auto", s |-> str]

LoadSources ==
    {AutoSource(<<"s">>), AutoSource(Placeholder(NameA)),
     TextSource(Placeholder(NameA), FALSE), TextSource(Placeholder(NameA), TRUE),
     TextSource(Placeholder(<<"u">>), TRUE), TextSource(Placeholder(<<"u">>), FALSE)}

ReplaceEdit(from, to, ignore) ==
    [type |-> "replace", from |-> from, to |-> to, required |-> TRUE,
     tags |-> {}, ignore_variables |-> ignore]

InsertEdit(content, ignore) ==
    [type |-> "insert", content |-> content, position |-> "append",
     tags |-> {}, ignore_variables |-> ignore]

LoadEdits ==
    {<<>>,
     <<ReplaceEdit(Placeholder(NameE), <<"g">>, FALSE)>>,
     <<ReplaceEdit(Placeholder(NameE), <<"g">>, TRUE)>>,
     <<ReplaceEdit(<<"f">>, Placeholder(NameA), TRUE)>>,
     <<InsertEdit(Placeholder(<<"u">>), TRUE)>>}

LoadInclusions ==
    {<<>>,
     <<[config |-> Placeholder(SELF("ROOT")) \o <<"c">>, tags |-> {},
        with_tags |-> <<>>, subfolder |-> <<"s">>, hash |-> None]>>,
     <<[config |-> <<"c">>, tags |-> {}, with_tags |-> <<>>,
        subfolder |-> Placeholder(NameA), hash |-> None]>>}

LoadedFrom ==
    {[type |-> "local", path |-> <<"/", "d", "/", "m">>],
     [type |-> "git", repo |-> <<"r">>, id |-> <<"i">>, path |-> <<"d", "/", "m">>]}

\* Two iteration orders of the hash containers: one and its reverse.
HashOrder ==
    <<NameA, NameE, <<"u">>, SELF("X"), SELF("ROOT"), SELF("NAME"),
      SELF("PARENT"), SELF("ID"), SELF("REPO")>>

Reverse(q) == [i \in 1..Len(q) |-> q[Len(q) + 1 - i]]

HashOrders == {HashOrder, Reverse(HashOrder)}

InitLoad ==
    /\ \E vs \in LoadVariables, path \in LoadPaths, src \in LoadSources,
          edits \in LoadEdits, incs \in LoadInclusions :
          conf = [variables |-> vs, variables_set |-> FALSE,
                  content |-> <<[path |-> path, tags |-> {}, hash |-> None,
                                 sources |-> <<src>>, edits |-> edits]>>,
                  inclusions |-> incs]
    /\ source \in LoadedFrom
    /\ order \in HashOrders
    /\ key_order \in HashOrders
    /\ loaded = None
    /\ pc = "start"
    /\ manifests = <<>> /\ tags = <<>> /\ active = None
    /\ vars_in = <<>> /\ var_result = None
    /\ IdleGuard
    /\ IdleSync
    /\ IdleCache
    /\ IdleCall

\* Config::from_filesource, line 131.
SetVariables ==
    /\ pc = "start"
    /\ loaded' = Config_set_variables(conf, source, order, key_order)
    /\ pc' = "loaded"
    /\ UNCHANGED <<cacheVars, first_run, manifests, tags, active, guardVars, varVars, conf, source, key_order, syncVars, callVars>>

NextLoad == SetVariables

SpecLoad == InitLoad /\ [][NextLoad]_vars

\* The strings of a manifest that are not marked ignore_variables.
SourceFields(src) ==
    IF src.type = "text"
    THEN IF src.ignore_variables THEN {} ELSE {src.content}
    ELSE {src.s}

EditFields(e) ==
    IF e.type = "delete" \/ e.ignore_variables THEN {}
    ELSE IF e.type = "replace" THEN {e.from, e.to} ELSE {e.content}

SubstitutedFields(c) ==
    UNION {{c.content[i].path}
           \cup UNION {SourceFields(c.content[i].sources[j]) :
                         j \in 1..Len(c.content[i].sources)}
           \cup UNION {EditFields(c.content[i].edits[j]) :
                         j \in 1..Len(c.content[i].edits)} :
           i \in 1..Len(c.content)}
    \cup UNION {{c.inclusions[i].config, c.inclusions[i].subfolder} :
                  i \in 1..Len(c.inclusions)}

HasPlaceholder(s) == Len(required_variables(s)) > 0

\* The names with a value: the declared ones and the SELF_ ones.
ValuedNames == DOMAIN conf.variables \cup DOMAIN self_variables(source)

\* The names of the placeholders of the declared fields that have no value.
MissingNames == UNION {NameSet(f) : f \in SubstitutedFields(conf)} \ ValuedNames

VariablesResolve ==
    /\ \A k \in DOMAIN conf.variables : ~starts_with_SELF(k)
    /\ LET selfs == self_variables(source)
           vs == [k \in ValuedNames |->
                    IF k \in DOMAIN selfs THEN selfs[k] ELSE conf.variables[k]]
       IN  resolve_variable_inter_refs(vs, restrict(order, ValuedNames)).ok

MissingKeyFails ==
    (pc = "loaded" /\ MissingNames # {}) =>
        /\ ~loaded.ok
        /\ VariablesResolve =>
              (loaded.kind = "RequiredKeyNotInVariables" /\ loaded.arg \in MissingNames)

\* No brace of s lies outside its {{name}} placeholders.
BracesOnlyInPlaceholders(s) ==
    LET rest == substituted_from(s, 1, [n \in NameSet(s) |-> <<>>]) IN
    \A i \in 1..Len(rest) : ~IsBrace(rest[i])

\* C6 as stated: after a successful load no placeholder is left in a field
\* that is not marked ignore_variables, and a placeholder without a value
\* makes the load fail with an error that names the key.
C6_NoPlaceholderLeft ==
    /\ (pc = "loaded" /\ loaded.ok) =>
          \A f \in SubstitutedFields(loaded.val) : ~HasPlaceholder(f)
    /\ MissingKeyFails

\* C6 amended: the same where the declared variable values and fields have
\* no brace outside their placeholders.
C6_NoPlaceholderLeftWithoutStrayBraces ==
    /\ (/\ pc = "loaded" /\ loaded.ok
        /\ \A k \in DOMAIN conf.variables : BracesOnlyInPlaceholders(conf.variables[k])
        /\ \A f \in SubstitutedFields(conf) : BracesOnlyInPlaceholders(f)) =>
          \A f \in SubstitutedFields(loaded.val) : ~HasPlaceholder(f)
    /\ MissingKeyFails

\* A load that replaced placeholders in the path, the source, an edit and
\* an inclusion, one of the values itself coming from another variable.
C6_Witness ==
    /\ pc = "loaded" /\ loaded.ok
    /\ \A k \in DOMAIN conf.variables : BracesOnlyInPlaceholders(conf.variables[k])
    /\ \E k \in DOMAIN conf.variables : HasPlaceholder(conf.variables[k])
    /\ HasPlaceholder(conf.content[1].path)
    /\ conf.content[1].sources[1].type = "auto"
    /\ HasPlaceholder(conf.content[1].sources[1].s)
    /\ Len(conf.content[1].edits) = 1
    /\ ~conf.content[1].edits[1].ignore_variables
    /\ Len(conf.inclusions) = 1
    /\ HasPlaceholder(conf.inclusions[1].config)

----------------------------------------------------------------------------
(* The filesystem.  A path is the sequence of its components and begins    *)
(* with RootDir; the root directory always exists.  Every entry below the  *)
(* root can be removed by the user who runs the command, the root itself   *)
(* cannot.                                                                 *)

DirNode == [kind |-> "dir"]
FileNode(data) == [kind |-> "file", data |-> data]

exists(d, p) == p \in DOMAIN d
is_dir(d, p) == exists(d, p) /\ d[p].kind = "dir"
is_file(d, p) == exists(d, p) /\ d[p].kind = "file"

IsPrefix(p, q) == Len(p) <= Len(q) /\ SubSeq(q, 1, Len(p)) = p

\* Path::parent of a path with at least two components.
Path_parent(p) == SubSeq(p, 1, Len(p) - 1)

FsOk(d) == [fs |-> d, res |-> Ok(<<>>)]
FsErr(d, kind, p) == [fs |-> d, res |-> Err(kind, p)]

fs_read(d, p) == IF is_file(d, p) THEN Ok(d[p].data) ELSE Err("CouldNotRead", p)

\* fs::remove_dir_all: removing the root removes what is below it and then
\* fails on the root itself.
remove_dir_all(d, p) ==
    IF ~is_dir(d, p) THEN FsErr(d, "CouldNotRemove", p)
    ELSE IF p = <<RootDir>>
    THEN FsErr([q \in {<<RootDir>>} |-> DirNode], "CouldNotRemove", p)
    ELSE FsOk([q \in {r \in DOMAIN d : ~IsPrefix(p, r)} |-> d[q]])

remove_file(d, p) ==
    IF ~is_file(d, p) THEN FsErr(d, "CouldNotRemove", p)
    ELSE FsOk([q \in DOMAIN d \ {p} |-> d[q]])

create_dir(d, p) ==
    IF exists(d, p) \/ ~is_dir(d, Path_parent(p)) THEN FsErr(d, "CouldNotCreate", p)
    ELSE FsOk(insert(d, p, DirNode))

create_dir_all(d, p) ==
    IF \E k \in 1..Len(p) : is_file(d, SubSeq(p, 1, k))
    THEN FsErr(d, "CouldNotCreate", p)
    ELSE FsOk([q \in DOMAIN d \cup {SubSeq(p, 1, k) : k \in 1..Len(p)} |->
                 IF q \in DOMAIN d THEN d[q] ELSE DirNode])

\* File::create followed by fs::write.
write_file(d, p, data) ==
    IF is_dir(d, p) \/ ~is_dir(d, Path_parent(p)) THEN FsErr(d, "CouldNotWrite", p)
    ELSE FsOk(insert(d, p, FileNode(data)))

----------------------------------------------------------------------------
(* Fetching and building one file (sources.rs, config.rs, edits.rs).       *)
(* File contents are sequences of one-character strings; InvalidByte is a  *)
(* byte that is not valid UTF-8.                                           *)

InvalidByte == "0xFF"
NewLine == "\n"

RECURSIVE hex_from(_, _)
hex_from(content, i) ==
    IF i > Len(content) THEN "" ELSE content[i] \o hex_from(content, i + 1)

\* Sha3_256 taken as collision-free: the digest names the content.
compute_hash(content) == "sha3:" \o hex_from(content, 1)

\* What the sources that are not local and not literal text deliver.
Remote ==
    [u \in {"https://y"} |-> <<"y">>]

FileSource_fetch(src, d) ==
    IF src.type = "text" THEN Ok(src.content)
    ELSE IF src.type = "local"
    THEN IF ~is_absolute(src.path) THEN Err("RelativePath", src.path)
         ELSE fs_read(d, src.path)
    ELSE IF src.type = "download" /\ src.url \in DOMAIN Remote THEN Ok(Remote[src.url])
    ELSE Err("CouldNotFetch", src)

\* fetch_from giving up at the first source whose fetch fails.
RECURSIVE fetch_from_bug(_, _, _, _)
fetch_from_bug(sources, i, hash, d) ==
    IF i > Len(sources)
    THEN [res |-> Err("NoValidSource", <<>>), fetched |-> Len(sources)]
    ELSE LET result == FileSource_fetch(sources[i], d) IN
         IF ~result.ok THEN [res |-> result, fetched |-> i]
         ELSE IF hash = None \/ hash = compute_hash(result.val)
         THEN [res |-> result, fetched |-> i]
         ELSE fetch_from_bug(sources, i + 1, hash, d)

\* fetch_first_valid from source i on; fetched counts the fetch calls.
RECURSIVE fetch_from(_, _, _, _)
fetch_from(sources, i, hash, d) ==
    IF i > Len(sources)
    THEN [res |-> Err("NoValidSource", <<>>), fetched |-> Len(sources)]
    ELSE LET result == FileSource_fetch(sources[i], d) IN
         IF result.ok /\ (hash = None \/ hash = compute_hash(result.val))
         THEN [res |-> result, fetched |-> i]
         ELSE fetch_from(sources, i + 1, hash, d)

fetch_first_valid(sources, hash, d) == fetch_from(sources, 1, hash, d)

from_utf8(data) ==
    IF InvalidByte \in Range(data) THEN Err("InvalidUtf8", <<>>) ELSE Ok(data)

contains(str, pat) == \E i \in 1..(Len(str) + 1) : starts_at(str, i, pat)

\* str::lines: the text split at "\n", a final line ending being optional.
RECURSIVE lines_from(_, _, _)
lines_from(str, i, cur) ==
    IF i > Len(str) THEN (IF cur = <<>> THEN <<>> ELSE <<cur>>)
    ELSE IF str[i] = NewLine THEN <<cur>> \o lines_from(str, i + 1, <<>>)
    ELSE lines_from(str, i + 1, Append(cur, str[i]))

lines(str) == lines_from(str, 1, <<>>)

RECURSIVE join_lines(_, _)
join_lines(ls, i) ==
    IF i > Len(ls) THEN <<>>
    ELSE IF i = Len(ls) THEN ls[i]
    ELSE ls[i] \o <<NewLine>> \o join_lines(ls, i + 1)

\* Replace that stops after the first occurrence.
Replace_apply_bug(e, str) ==
    IF ~contains(str, e.from)
    THEN IF e.required THEN Err("ReplacementNotFound", e.from) ELSE Ok(str)
    ELSE LET i == CHOOSE k \in 1..(Len(str) + 1) :
                     /\ starts_at(str, k, e.from)
                     /\ \A m \in 1..(k - 1) : ~starts_at(str, m, e.from)
         IN  Ok(SubSeq(str, 1, i - 1) \o e.to \o SubSeq(str, i + Len(e.from), Len(str)))

\* FileEdit::apply, Replace (edits.rs 56-67).
Replace_apply(e, str) ==
    IF e.required /\ ~contains(str, e.from)
    THEN Err("ReplacementNotFound", e.from)
    ELSE Ok(str_replace(str, e.from, e.to))

\* Insert at a line that refuses the position after the last line.
Insert_apply_bug(e, str) ==
    IF e.position = "append" THEN Ok(str \o e.content)
    ELSE IF e.position = "prepend" THEN Ok(e.content \o str)
    ELSE LET ls == lines(str) IN
         IF e.line >= Len(ls) THEN Err("NotEnoughLines", e.line)
         ELSE Ok(join_lines(SubSeq(ls, 1, e.line) \o <<e.content>>
                            \o SubSeq(ls, e.line + 1, Len(ls)), 1))

\* FileEdit::apply, Insert (edits.rs 68-84).
Insert_apply(e, str) ==
    IF e.position = "append" THEN Ok(str \o e.content)
    ELSE IF e.position = "prepend" THEN Ok(e.content \o str)
    ELSE LET ls == lines(str) IN
         IF e.line > Len(ls) THEN Err("NotEnoughLines", e.line)
         ELSE Ok(join_lines(SubSeq(ls, 1, e.line) \o <<e.content>>
                            \o SubSeq(ls, e.line + 1, Len(ls)), 1))

\* Delete that keeps the last line of the range.
Delete_apply_bug(e, str) ==
    LET ls == lines(str) IN
    IF e.start = 0 \/ e.end = 0 THEN Err("LinesCountFromOne", <<>>)
    ELSE IF e.start > e.end \/ e.end > Len(ls)
    THEN Err("InvalidDeletionRange", <<e.start, e.end>>)
    ELSE Ok(join_lines(SubSeq(ls, 1, e.start - 1) \o SubSeq(ls, e.end, Len(ls)), 1))

\* FileEdit::apply, Delete (edits.rs 85-106).
Delete_apply(e, str) ==
    LET ls == lines(str) IN
    IF e.start = 0 \/ e.end = 0 THEN Err("LinesCountFromOne", <<>>)
    ELSE IF e.start > e.end \/ e.end > Len(ls)
    THEN Err("InvalidDeletionRange", <<e.start, e.end>>)
    ELSE Ok(join_lines(SubSeq(ls, 1, e.start - 1)
                       \o SubSeq(ls, e.end + 1, Len(ls)), 1))

FileEdit_apply(e, str) ==
    IF e.type = "replace" THEN Replace_apply(e, str)
    ELSE IF e.type = "insert" THEN Insert_apply(e, str)
    ELSE Delete_apply(e, str)

\* The loop applying every edit, active or not.
RECURSIVE edits_from_bug(_, _, _, _)
edits_from_bug(edits, i, ts, strdata) ==
    IF i > Len(edits) THEN Ok(strdata)
    ELSE LET applied == FileEdit_apply(edits[i], strdata) IN
         IF ~applied.ok THEN applied
         ELSE edits_from_bug(edits, i + 1, ts, applied.val)

\* The loop of from_reference_unchecked from edit i on.
RECURSIVE edits_from(_, _, _, _)
edits_from(edits, i, ts, strdata) ==
    IF i > Len(edits) THEN Ok(strdata)
    ELSE IF ~FileEdit_is_active(edits[i], Range(ts))
    THEN edits_from(edits, i + 1, ts, strdata)
    ELSE LET applied == FileEdit_apply(edits[i], strdata) IN
         IF ~applied.ok THEN applied
         ELSE edits_from(edits, i + 1, ts, applied.val)

from_reference_unchecked(f, data, ts) ==
    IF Len(f.edits) = 0 THEN Ok(data)
    ELSE LET strdata == from_utf8(data) IN
         IF ~strdata.ok THEN strdata
         ELSE edits_from(f.edits, 1, ts, strdata.val)

File_build(f, ts, d) ==
    LET data == fetch_first_valid(f.sources, f.hash, d) IN
    [res |-> IF data.res.ok THEN from_reference_unchecked(f, data.res.val, ts)
             ELSE data.res,
     fetched |-> data.fetched]

----------------------------------------------------------------------------
(* MemFolder (memfolder.rs) *)

contains_parent_dir_bug(path) == Len(path) > 0 /\ path[Len(path)] = ParentDir

contains_parent_dir(path) == \E i \in 1..Len(path) : path[i] = ParentDir

\* One round of the loop of load_first_valid_with_ref: the bytes of item
\* and the number of fetch calls made for it.
load_item(item, ts, reference, d) ==
    LET ref_path == join(reference, item.path)
        content == fs_read(d, ref_path)
    IN  IF item.hash # None /\ content.ok /\ compute_hash(content.val) = item.hash
        THEN [res |-> from_reference_unchecked(item, content.val, ts), fetched |-> 0]
        ELSE File_build(item, ts, d)

RECURSIVE load_from(_, _, _, _, _, _)
load_from(items, i, ts, reference, d, acc) ==
    IF i > Len(items) THEN [res |-> Ok(acc.memfolder), fetched |-> acc.fetched]
    ELSE IF contains_parent_dir(items[i].path)
    THEN [res |-> Err("ParentDir", items[i].path), fetched |-> acc.fetched]
    ELSE LET built == load_item(items[i], ts, reference, d)
             count == insert(acc.fetched, items[i].path, built.fetched)
         IN  IF ~built.res.ok THEN [res |-> built.res, fetched |-> count]
             ELSE load_from(items, i + 1, ts, reference, d,
                            [memfolder |-> insert(acc.memfolder, items[i].path,
                                                  built.res.val),
                             fetched |-> count])

load_first_valid_with_ref(c, ts, reference, d) ==
    LET items == get_active(c, ts) IN
    IF ~items.ok THEN [res |-> items, fetched |-> <<>>]
    ELSE load_from(items.val, 1, ts, reference, d,
                   [memfolder |-> <<>>, fetched |-> <<>>])

\* write_into from the i-th entry of the map on, in its iteration order.
RECURSIVE write_into_from(_, _, _, _, _)
write_into_from(d, mf, ord, i, out_path) ==
    IF i > Len(ord) THEN FsOk(d)
    ELSE LET target_path == join(out_path, format_subpath(ord[i])) IN
         IF Len(target_path) < 2 THEN FsErr(d, "MalformedPath", target_path)
         ELSE LET made == create_dir_all(d, Path_parent(target_path)) IN
              IF ~made.res.ok THEN made
              ELSE LET written == write_file(made.fs, target_path, mf[ord[i]]) IN
                   IF ~written.res.ok THEN written
                   ELSE write_into_from(written.fs, mf, ord, i + 1, out_path)

write_into(d, mf, ord, out_path) == write_into_from(d, mf, ord, 1, out_path)

RECURSIVE tracked_from(_, _, _)
tracked_from(ord, i, firsts) ==
    IF i > Len(ord) THEN Ok(firsts)
    ELSE IF Len(ord[i]) = 0 THEN Err("EmptyPath", <<>>)
    ELSE IF <<ord[i][1]>> \in Range(firsts) THEN tracked_from(ord, i + 1, firsts)
    ELSE tracked_from(ord, i + 1, Append(firsts, <<ord[i][1]>>))

tracked_subpaths(ord) == tracked_from(ord, 1, <<>>)

write_to_folder(d, mf, ord, out_path) ==
    IF exists(d, out_path) /\ ~is_dir(d, out_path)
    THEN FsErr(d, "NotADirectory", out_path)
    ELSE LET removed == IF exists(d, out_path) THEN remove_dir_all(d, out_path)
                        ELSE FsOk(d)
         IN  IF ~removed.res.ok THEN removed
             ELSE LET created == create_dir(removed.fs, out_path) IN
                  IF ~created.res.ok THEN created
                  ELSE write_into(created.fs, mf, ord, out_path)

\* The loop of write_to_folder_skip_first over the tracked entries.
RECURSIVE remove_tracked_from(_, _, _, _)
remove_tracked_from(d, tracked, i, out_path) ==
    IF i > Len(tracked) THEN FsOk(d)
    ELSE LET tracked_path == join(out_path, tracked[i]) IN
         IF ~exists(d, tracked_path) THEN remove_tracked_from(d, tracked, i + 1, out_path)
         ELSE LET removed == IF is_dir(d, tracked_path)
                             THEN remove_dir_all(d, tracked_path)
                             ELSE remove_file(d, tracked_path)
              IN  IF ~removed.res.ok THEN removed
                  ELSE remove_tracked_from(removed.fs, tracked, i + 1, out_path)

write_to_folder_skip_first(d, mf, ord, out_path) ==
    IF exists(d, out_path) /\ ~is_dir(d, out_path)
    THEN FsErr(d, "NotADirectory", out_path)
    ELSE LET tracked == tracked_subpaths(ord)
             prepared == IF ~exists(d, out_path) THEN create_dir(d, out_path)
                         ELSE IF ~tracked.ok THEN [fs |-> d, res |-> tracked]
                         ELSE remove_tracked_from(d, tracked.val, 1, out_path)
         IN  IF ~prepared.res.ok THEN prepared
             ELSE write_into(prepared.fs, mf, ord, out_path)

----------------------------------------------------------------------------
(* The sync command: SpecSync *)

X == <<"x">>
Y == <<"y">>
Z == <<"z">>

LocalSource(path) == [type |-> "local", path |-> path]
DownloadSource(url) == [type |-> "download", url |-> url]

AppendEdit(content, ts) ==
    [type |-> "insert", content |-> content, position |-> "append",
     tags |-> ts, ignore_variables |-> FALSE]

SyncFile(path, hash, sources, edits) ==
    [path |-> path, tags |-> {}, hash |-> hash, sources |-> sources, edits |-> edits]

\* The files the manifest of a sync may declare.
SyncFiles ==
    {SyncFile(<<"a">>, None, <<TextSource(X, FALSE)>>, <<>>),
     SyncFile(<<"a">>, compute_hash(X), <<TextSource(X, FALSE)>>, <<AppendEdit(Z, {})>>),
     SyncFile(<<"a">>, compute_hash(X),
              <<LocalSource(<<"m">>), DownloadSource("https://y"), TextSource(X, FALSE)>>,
              <<>>),
     SyncFile(<<"a">>, compute_hash(X), <<DownloadSource("https://y")>>, <<>>),
     SyncFile(<<RootDir, "a">>, compute_hash(X), <<TextSource(X, FALSE)>>, <<>>),
     SyncFile(<<RootDir, "a">>, None, <<DownloadSource("https://y")>>, <<>>),
     SyncFile(<<"a", "b">>, None, <<LocalSource(<<RootDir, "a">>)>>, <<>>),
     SyncFile(<<"b">>, None, <<TextSource(Y, FALSE)>>, <<AppendEdit(Z, {"t"})>>),
     SyncFile(<<ParentDir, "a">>, None, <<TextSource(X, FALSE)>>, <<>>)}

SyncManifests ==
    {MkConfig(<<>>, <<>>)} \cup {MkConfig(<<f>>, <<>>) : f \in SyncFiles}
    \cup {MkConfig(<<f, g>>, <<>>) : f \in SyncFiles, g \in SyncFiles}

Output == <<RootDir, "out">>

\* What the target directory may hold before the command.
TargetEntries ==
    {a \cup s :
        a \in {{}, {<<<<"a">>, FileNode(X)>>}, {<<<<"a">>, FileNode(Y)>>},
               {<<<<"a">>, DirNode>>, <<<<"a", "b">>, FileNode(X)>>}},
        s \in {{}, {<<<<"s">>, FileNode(X)>>}}}

FsOf(entries) ==
    [p \in {e[1] : e \in entries} |-> (CHOOSE e \in entries : e[1] = p)[2]]

Filesystems ==
    {FsOf({<<<<RootDir>>, DirNode>>} \cup outside \cup target) :
        outside \in {{}, {<<<<RootDir, "a">>, FileNode(X)>>}},
        target \in {{}, {<<Output, FileNode(X)>>}}
                   \cup {{<<Output, DirNode>>} \cup {<<Output \o e[1], e[2]>> : e \in es} :
                            es \in TargetEntries}}

InitSync ==
    /\ \E c \in SyncManifests : manifests = [r \in {"root"} |-> c]
    /\ tags \in {<<>>, <<"t">>}
    /\ fs \in Filesystems
    /\ fs0 = fs
    /\ output = Output
    /\ cwd \in {<<RootDir>>, Output}
    /\ skip_first \in BOOLEAN
    /\ no_confirm \in BOOLEAN
    /\ memfolder = NoSnapshot
    /\ fetches = <<>>
    /\ iter_order = <<>>
    /\ sync_result = None
    /\ IdleCache
    /\ pc = "start"
    /\ active = None
    /\ IdleGuard
    /\ IdleVars
    /\ IdleLoad
    /\ IdleCall

\* sync_folder up to the snapshot (main.rs 108-118).
SyncLoad ==
    /\ pc = "start"
    /\ IF exists(fs, output) /\ output = cwd /\ ~skip_first
       THEN /\ sync_result' = Err("WouldOverwriteCwd", output)
            /\ pc' = "failed"
            /\ UNCHANGED <<memfolder, fetches>>
       ELSE LET c == from_general_path("root") IN
            IF ~c.ok
            THEN /\ sync_result' = c
                 /\ pc' = "failed"
                 /\ UNCHANGED <<memfolder, fetches>>
            ELSE LET loaded_folder == load_first_valid_with_ref(c.val, tags, output, fs) IN
                 /\ memfolder' = loaded_folder.res
                 /\ fetches' = loaded_folder.fetched
                 /\ IF loaded_folder.res.ok
                    THEN pc' = "built" /\ sync_result' = sync_result
                    ELSE pc' = "failed" /\ sync_result' = loaded_folder.res
    /\ UNCHANGED <<cacheVars, first_run, manifests, tags, active, guardVars, varVars, loadVars, callVars,
                   fs, fs0, output, cwd, skip_first, no_confirm, iter_order>>

\* sync_folder asking for the confirmation only after the target was removed.
SyncWrite_bug ==
    /\ pc = "built"
    /\ \E ord \in Permutations_of(DOMAIN memfolder.val),
          answer \in (IF ~no_confirm /\ exists(fs, output) THEN BOOLEAN ELSE {TRUE}) :
          LET tracked == tracked_subpaths(ord) IN
          /\ iter_order' = ord
          /\ IF skip_first /\ ~tracked.ok
             THEN /\ sync_result' = tracked
                  /\ pc' = "failed"
                  /\ fs' = fs
             ELSE IF ~answer
             THEN /\ sync_result' = Err("NotConfirmed", output)
                  /\ pc' = "failed"
                  /\ fs' = IF is_dir(fs, output) THEN remove_dir_all(fs, output).fs ELSE fs
             ELSE LET written == IF skip_first
                                 THEN write_to_folder_skip_first(fs, memfolder.val, ord, output)
                                 ELSE write_to_folder(fs, memfolder.val, ord, output)
                  IN  /\ fs' = written.fs
                      /\ sync_result' = written.res
                      /\ pc' = IF written.res.ok THEN "done" ELSE "failed"
    /\ UNCHANGED <<cacheVars, first_run, manifests, tags, active, guardVars, varVars, loadVars, callVars,
                   fs0, output, cwd, skip_first, no_confirm, memfolder, fetches>>

\* sync_folder from the confirmation on (main.rs 119-133); ord is the
\* iteration order of the snapshot map, answer is what the user replies.
SyncWrite ==
    /\ pc = "built"
    /\ \E ord \in Permutations_of(DOMAIN memfolder.val),
          answer \in (IF ~no_confirm /\ exists(fs, output) THEN BOOLEAN ELSE {TRUE}) :
          LET tracked == tracked_subpaths(ord) IN
          /\ iter_order' = ord
          /\ IF skip_first /\ ~tracked.ok
             THEN /\ sync_result' = tracked
                  /\ pc' = "failed"
                  /\ fs' = fs
             ELSE IF ~answer
             THEN /\ sync_result' = Err("NotConfirmed", output)
                  /\ pc' = "failed"
                  /\ fs' = fs
             ELSE LET written == IF skip_first
                                 THEN write_to_folder_skip_first(fs, memfolder.val, ord, output)
                                 ELSE write_to_folder(fs, memfolder.val, ord, output)
                  IN  /\ fs' = written.fs
                      /\ sync_result' = written.res
                      /\ pc' = IF written.res.ok THEN "done" ELSE "failed"
    /\ UNCHANGED <<cacheVars, first_run, manifests, tags, active, guardVars, varVars, loadVars, callVars,
                   fs0, output, cwd, skip_first, no_confirm, memfolder, fetches>>

NextSync == SyncLoad \/ SyncWrite

SpecSync == InitSync /\ [][NextSync]_vars

\* The files the snapshot of the running sync is built from.
SyncActive == get_active(manifests["root"], tags)

\* The place of file f below the reference directory.
ReferencePath(f) == output \o format_subpath(f.path)

\* The reference directory holds, at the relative path of f, a file whose
\* hash is the hash f carries.
HeldInReference(f) ==
    /\ f.hash # None
    /\ is_file(fs0, ReferencePath(f))
    /\ compute_hash(fs0[ReferencePath(f)].data) = f.hash

\* C7: once the snapshot is built, a file that carries a hash and that the
\* reference directory holds with that hash has caused no fetch call and its
\* entry is the edit pipeline applied to the reference bytes; the entry of
\* every other file is fetch_first_valid followed by the edit pipeline.
C7_ReferenceReusedElseFetched ==
    pc = "built" =>
        \A i \in 1..Len(SyncActive.val) :
            LET f == SyncActive.val[i] IN
            IF HeldInReference(f)
            THEN /\ fetches[f.path] = 0
                 /\ Ok(memfolder.val[f.path])
                      = from_reference_unchecked(f, fs0[ReferencePath(f)].data, tags)
            ELSE LET data == fetch_first_valid(f.sources, f.hash, fs0) IN
                 /\ fetches[f.path] > 0
                 /\ data.res.ok
                 /\ Ok(memfolder.val[f.path])
                      = from_reference_unchecked(f, data.res.val, tags)

HasParentDirPath ==
    /\ SyncActive.ok
    /\ \E i \in 1..Len(SyncActive.val) : ParentDir \in Range(SyncActive.val[i].path)

\* C8: when an active file path has a ".." component, sync never gets to a
\* snapshot or to a write, ends with an error, and the filesystem is as it
\* was when the command started.
C8_ParentDirRejectedBeforeWrite ==
    HasParentDirPath =>
        /\ pc \in {"start", "failed"}
        /\ fs = fs0
        /\ pc = "failed" => ~sync_result.ok

\* A sync that has failed on the ".." path of its second file, after the
\* first file was fetched, on a target directory that holds entries.
C8_Witness ==
    /\ pc = "failed"
    /\ HasParentDirPath
    /\ sync_result.kind = "ParentDir"
    /\ Len(SyncActive.val) = 2
    /\ fetches # <<>>
    /\ is_dir(fs, output)
    /\ is_file(fs, output \o <<"s">>)
    /\ is_file(fs, output \o <<"a">>)

\* The files at or below path p.
FilesUnder(d, p) == {q \in DOMAIN d : IsPrefix(p, q) /\ d[q].kind = "file"}

\* C9: after a successful full-replace write the files under the target are
\* exactly the entries of the snapshot, each with the bytes of its entry;
\* a target that exists and is not a directory makes the write fail and
\* changes nothing.
C9_FullReplaceExact ==
    /\ (pc = "done" /\ ~skip_first) =>
          /\ FilesUnder(fs, output)
               = {output \o format_subpath(k) : k \in DOMAIN memfolder.val}
          /\ \A k \in DOMAIN memfolder.val :
                /\ is_file(fs, output \o format_subpath(k))
                /\ fs[output \o format_subpath(k)].data = memfolder.val[k]
    /\ (pc \in {"done", "failed"} /\ ~skip_first /\ is_file(fs0, output)) =>
          (pc = "failed" /\ fs = fs0)

\* The entry at path p with everything below it.
Subtree(d, p) == [q \in {r \in DOMAIN d : IsPrefix(p, r)} |-> d[q]]

\* The names of the top-level entries of the target, before or now.
TopLevelNames ==
    {p[Len(output) + 1] : p \in {q \in DOMAIN fs \cup DOMAIN fs0 :
                                   IsPrefix(output, q) /\ Len(q) = Len(output) + 1}}

\* The first components of the snapshot paths.
TrackedNames == {k[1] : k \in DOMAIN memfolder.val}

\* C10: a skip-first-level write on an existing target leaves every
\* top-level entry whose name is not the first component of a snapshot path
\* as it was, and when it succeeds the files under each tracked entry are
\* exactly the snapshot's files under it.
C10_SkipFirstFrame ==
    (skip_first /\ memfolder.ok /\ pc \in {"done", "failed"} /\ is_dir(fs0, output)) =>
        /\ \A n \in TopLevelNames \ TrackedNames :
              Subtree(fs, output \o <<n>>) = Subtree(fs0, output \o <<n>>)
        /\ pc = "done" =>
              \A n \in TrackedNames :
                 /\ FilesUnder(fs, output \o <<n>>)
                      = {output \o k : k \in {j \in DOMAIN memfolder.val : j[1] = n}}
                 /\ \A k \in {j \in DOMAIN memfolder.val : j[1] = n} :
                       fs[output \o k].data = memfolder.val[k]

----------------------------------------------------------------------------
(* get_active under requests with negated tags, tags of included manifests *)
(* and inclusions that bring no file: SpecRequest                          *)

\* The negation of tag t as it is written in a request.
Negation(t) == "!" \o t

RequestFiles ==
    {MkFile(<<"a">>, {}, <<>>), MkFile(<<"a">>, {"t"}, <<>>),
     MkFile(<<"c">>, {Negation("t")}, <<>>), MkFile(<<"e">>, {}, <<MkEdit({"v"})>>)}

\* The included manifest declares one file, tagged u.
RequestChild == MkConfig(<<MkFile(<<"b">>, {"u"}, <<>>)>>, <<>>)

RequestInclusions ==
    {<<>>,
     <<MkInclusion("c3", {}, <<>>, <<"d">>)>>,
     <<MkInclusion("c3", {}, <<"u">>, <<"d">>)>>,
     <<MkInclusion("c3", {"t"}, <<"u">>, <<"d">>)>>}

Requests ==
    {<<>>, <<"t">>, <<Negation("t")>>, <<"t", Negation("t")>>, <<Negation("t"), "t">>,
     <<"u">>, <<"v">>, <<"t", "u">>, <<"w">>}

InitRequest ==
    /\ \E content \in SeqsUpTo(RequestFiles, MaxLocal), incs \in RequestInclusions :
          manifests = [r \in {"root", "c3"} |->
                         IF r = "root" THEN MkConfig(content, incs) ELSE RequestChild]
    /\ tags \in Requests
    /\ active = None
    /\ pc = "start"
    /\ IdleGuard
    /\ IdleVars
    /\ IdleLoad
    /\ IdleSync
    /\ IdleCache
    /\ IdleCall

SpecRequest == InitRequest /\ [][NextActive]_vars

\* The inclusions of the root whose manifest yields no active file under
\* the with_tags of the inclusion.
EmptyInclusions ==
    {i \in 1..Len(manifests["root"].inclusions) :
        LET child == from_general_path(manifests["root"].inclusions[i].config) IN
        /\ child.ok
        /\ LET files == get_active(child.val, manifests["root"].inclusions[i].with_tags) IN
           files.ok /\ Len(files.val) = 0}

\* C14: an inclusion whose manifest yields no active file under with_tags
\* makes Inclusion.get_files fail, and with it the get_active of the parent.
C14_EmptyInclusionRejected ==
    (pc = "resolved" /\ ValidRequest) =>
        \A i \in EmptyInclusions :
            /\ ~Inclusion_get_files(manifests["root"].inclusions[i]).ok
            /\ ~active.ok

\* The request names a tag and its negation.
Contradictory == \E t \in Range(tags) : Negation(t) \in Range(tags)

\* C15: a request that contains a tag and its negation makes get_active
\* return an error, whatever tags the manifest declares.
C15_ContradictoryRequestFails ==
    (pc = "resolved" /\ Contradictory) => ~active.ok

\* The tags declared by the manifest behind ref and, through at most n
\* levels of inclusions, by the manifests it includes.
RECURSIVE TagUniverseWithin(_, _)
TagUniverseWithin(ref, n) ==
    IF ref \notin DOMAIN manifests THEN {}
    ELSE Config_tags(manifests[ref])
         \cup (IF n = 0 THEN {}
               ELSE UNION {TagUniverseWithin(manifests[ref].inclusions[i].config, n - 1) :
                             i \in 1..Len(manifests[ref].inclusions)})

TagUniverse == TagUniverseWithin("root", Cardinality(DOMAIN manifests))

\* C16: get_active fails with the undefined-tag error, naming such a tag,
\* exactly when the request names a tag outside the tag universe of the
\* manifest, the universe reaching recursively through the inclusions.
C16_UndefinedTagIffOutsideUniverse ==
    pc = "resolved" =>
        IF Range(tags) \subseteq TagUniverse
        THEN ~(~active.ok /\ active.kind = "UndefinedTag")
        ELSE ~active.ok /\ active.kind = "UndefinedTag"
             /\ active.arg \in Range(tags) \ TagUniverse

----------------------------------------------------------------------------
(* fetch_first_valid on its own: SpecFetch *)

MaxSources == 4     \* sources in the list of one file

FetchSources ==
    {TextSource(X, FALSE), DownloadSource("https://y"), DownloadSource("https://z"),
     LocalSource(<<"m">>), LocalSource(<<RootDir, "a">>)}

FetchHashes == {None, compute_hash(X), compute_hash(Y), compute_hash(Z)}

FetchFilesystems ==
    {FsOf({<<<<RootDir>>, DirNode>>}),
     FsOf({<<<<RootDir>>, DirNode>>, <<<<RootDir, "a">>, FileNode(X)>>})}

InitFetch ==
    /\ \E srcs \in SeqsUpTo(FetchSources, MaxSources), hash \in FetchHashes :
          call = [fn |-> "fetch_first_valid", sources |-> srcs, hash |-> hash]
    /\ returned = None
    /\ fs \in FetchFilesystems
    /\ fs0 = fs
    /\ output = <<>> /\ cwd = <<>>
    /\ skip_first = FALSE /\ no_confirm = FALSE
    /\ memfolder = NoSnapshot
    /\ fetches = <<>>
    /\ iter_order = <<>>
    /\ sync_result = None
    /\ IdleCache
    /\ pc = "start"
    /\ manifests = <<>> /\ tags = <<>> /\ active = None
    /\ IdleGuard
    /\ IdleVars
    /\ IdleLoad

FetchFirstValid ==
    /\ pc = "start"
    /\ call.fn = "fetch_first_valid"
    /\ returned' = fetch_first_valid(call.sources, call.hash, fs)
    /\ pc' = "returned"
    /\ UNCHANGED <<cacheVars, first_run, manifests, tags, active, guardVars, varVars, loadVars, syncVars, call>>

NextFetch == FetchFirstValid

SpecFetch == InitFetch /\ [][NextFetch]_vars

\* The sources of the call that qualify: their fetch succeeds and, when a
\* hash is declared, their bytes hash to it.
Qualifying ==
    {i \in 1..Len(call.sources) :
        LET result == FileSource_fetch(call.sources[i], fs) IN
        result.ok /\ (call.hash = None \/ compute_hash(result.val) = call.hash)}

FirstQualifying == CHOOSE i \in Qualifying : \A j \in Qualifying : i <= j

\* C17: fetch_first_valid returns the bytes of the first qualifying source
\* after fetching exactly the sources up to it, in order; it fails with
\* 'no valid source' exactly when no source qualifies, the empty list
\* included.
C17_FirstValidSource ==
    (pc = "returned" /\ call.fn = "fetch_first_valid") =>
        IF Qualifying = {}
        THEN /\ ~returned.res.ok /\ returned.res.kind = "NoValidSource"
             /\ returned.fetched = Len(call.sources)
        ELSE /\ returned.res = FileSource_fetch(call.sources[FirstQualifying], fs)
             /\ returned.res.ok
             /\ returned.fetched = FirstQualifying

\* A call with a hash that skipped a failing source and a source with other
\* bytes, returned the third source and never fetched the fourth.
C17_Witness ==
    /\ pc = "returned" /\ call.fn = "fetch_first_valid"
    /\ call.hash # None
    /\ Len(call.sources) = 4
    /\ ~FileSource_fetch(call.sources[1], fs).ok
    /\ FileSource_fetch(call.sources[2], fs).ok
    /\ 3 \in Qualifying /\ 2 \notin Qualifying
    /\ returned.res.ok /\ returned.fetched = 3

----------------------------------------------------------------------------
(* FileEdit::apply on its own: SpecEdit *)

MaxLines == 4       \* lines of the edited document

EditLines == {<<>>, <<"a">>, <<"a", "b">>}

\* The documents: up to MaxLines lines, with or without a final line ending.
EditTexts ==
    {join_lines(ls, 1) \o ending :
        ls \in SeqsUpTo(EditLines, MaxLines), ending \in {<<>>, <<NewLine>>}}

DeleteEdit(start, end) == [type |-> "delete", start |-> start, end |-> end, tags |-> {}]

LineEdit(content, ln) ==
    [type |-> "insert", content |-> content, position |-> "at_line", line |-> ln,
     tags |-> {}, ignore_variables |-> FALSE]

PrependEdit(content) ==
    [type |-> "insert", content |-> content, position |-> "prepend",
     tags |-> {}, ignore_variables |-> FALSE]

Edits ==
    {DeleteEdit(start, end) : start \in 0..(MaxLines + 1), end \in 0..(MaxLines + 1)}
    \cup {LineEdit(<<"c">>, ln) : ln \in 0..(MaxLines + 1)}
    \cup {AppendEdit(<<"c">>, {}), PrependEdit(<<"c">>)}
    \cup {[ReplaceEdit(from, to, FALSE) EXCEPT !.required = required] :
            from \in {<<"a">>, <<"a", "b">>, <<"c">>},
            to \in {<<"c">>, <<>>, <<"a", "a">>},
            required \in BOOLEAN}

InitEdit ==
    /\ \E e \in Edits, text \in EditTexts :
          call = [fn |-> "apply", edit |-> e, input |-> text]
    /\ returned = None
    /\ pc = "start"
    /\ manifests = <<>> /\ tags = <<>> /\ active = None
    /\ IdleGuard
    /\ IdleVars
    /\ IdleLoad
    /\ IdleSync
    /\ IdleCache

Apply ==
    /\ pc = "start"
    /\ call.fn = "apply"
    /\ returned' = FileEdit_apply(call.edit, call.input)
    /\ pc' = "returned"
    /\ UNCHANGED <<cacheVars, first_run, manifests, tags, active, guardVars, varVars, loadVars, syncVars, call>>

NextEdit == Apply

SpecEdit == InitEdit /\ [][NextEdit]_vars

\* The lines of the document of the call, and their number.
DocLines == lines(call.input)
DocLen == Len(DocLines)

Applied(type) == pc = "returned" /\ call.fn = "apply" /\ call.edit.type = type

\* C18: Delete(start, end) on a document of n lines yields, when
\* 1 <= start <= end <= n, lines 1..start-1 followed by lines end+1..n and
\* nothing else, and fails when start = 0, end = 0, start > end or end > n.
C18_DeleteRange ==
    Applied("delete") =>
        LET start == call.edit.start
            end == call.edit.end
            gone == end - start + 1
        IN  IF 1 <= start /\ start <= end /\ end <= DocLen
            THEN /\ returned.ok
                 /\ returned.val
                      = join_lines([i \in 1..(DocLen - gone) |->
                                      IF i < start THEN DocLines[i] ELSE DocLines[i + gone]], 1)
            ELSE ~returned.ok

\* Delete(2, 3) applied to a document of four lines.
C18_Witness ==
    /\ Applied("delete")
    /\ DocLen = 4
    /\ call.edit.start = 2 /\ call.edit.end = 3
    /\ returned.ok
    /\ lines(returned.val) = <<DocLines[1], DocLines[4]>>
    /\ DocLines[1] # DocLines[4]

\* The number of occurrences of pat in str from position i on, counted from
\* left to right without overlap.
RECURSIVE occurrences_from(_, _, _)
occurrences_from(str, i, pat) ==
    IF i + Len(pat) - 1 > Len(str) THEN 0
    ELSE IF SubSeq(str, i, i + Len(pat) - 1) = pat
    THEN 1 + occurrences_from(str, i + Len(pat), pat)
    ELSE occurrences_from(str, i + 1, pat)

\* C19: Replace on a text without from fails when required and returns the
\* text unchanged when not required; on a text with from it replaces every
\* occurrence by to: the length changes by the difference for each
\* occurrence, no occurrence is left when to is non-empty and shares no
\* character with from, and putting from back for to restores the text when
\* the text has no character of to.
C19_ReplaceEveryOccurrence ==
    Applied("replace") =>
        LET from == call.edit.from
            to == call.edit.to
            str == call.input
            count == occurrences_from(str, 1, from)
        IN  IF count = 0
            THEN IF call.edit.required THEN ~returned.ok
                 ELSE returned = Ok(str)
            ELSE /\ returned.ok
                 /\ Len(returned.val) = Len(str) + count * (Len(to) - Len(from))
                 /\ (to # <<>> /\ Range(to) \cap Range(from) = {}) =>
                       occurrences_from(returned.val, 1, from) = 0
                 /\ (to # <<>> /\ Range(to) \cap Range(str) = {}) =>
                       /\ occurrences_from(returned.val, 1, to) = count
                       /\ str_replace(returned.val, to, from) = str

\* A required Replace that replaced three occurrences of a two-character
\* from in a text that also holds other characters.
C19_Witness ==
    /\ Applied("replace")
    /\ call.edit.required
    /\ Len(call.edit.from) = 2 /\ call.edit.to = <<"c">>
    /\ occurrences_from(call.input, 1, call.edit.from) = 3
    /\ returned.ok
    /\ occurrences_from(returned.val, 1, <<"c">>) = 3
    /\ "a" \in Range(returned.val)

\* C20: Insert at line N into a document of n lines succeeds exactly when
\* N <= n and yields the lines of the document in their order with the
\* content between line N and line N + 1; append and prepend put the
\* content after, respectively before, the unchanged text.
C20_InsertPosition ==
    Applied("insert") =>
        LET content == call.edit.content IN
        IF call.edit.position = "append" THEN returned = Ok(call.input \o content)
        ELSE IF call.edit.position = "prepend" THEN returned = Ok(content \o call.input)
        ELSE LET ln == call.edit.line IN
             IF ln <= DocLen
             THEN /\ returned.ok
                  /\ returned.val
                       = join_lines([i \in 1..(DocLen + 1) |->
                                       IF i <= ln THEN DocLines[i]
                                       ELSE IF i = ln + 1 THEN content
                                       ELSE DocLines[i - 1]], 1)
             ELSE ~returned.ok

\* An insertion after line 2 of a document of four lines.
C20_Witness ==
    /\ Applied("insert")
    /\ call.edit.position = "at_line" /\ call.edit.line = 2
    /\ DocLen = 4
    /\ returned.ok
    /\ lines(returned.val)
         = <<DocLines[1], DocLines[2], call.edit.content, DocLines[3], DocLines[4]>>
    /\ DocLines[2] # DocLines[3]

----------------------------------------------------------------------------
(* File::build on its own: SpecBuild *)

MaxEdits == 3       \* edits in the list of one file

BuildTags == {{}, {"t"}, {"u"}}

\* Edits whose order matters, one of them failing on a text without "b".
BuildEdits ==
    {AppendEdit(<<"b">>, ts) : ts \in BuildTags}
    \cup {[ReplaceEdit(<<"b">>, <<"a", "c">>, FALSE) EXCEPT !.tags = ts] : ts \in BuildTags}
    \cup {[DeleteEdit(1, 1) EXCEPT !.tags = ts] : ts \in BuildTags}

\* The bytes the only source of the file delivers.
BuildData == {<<>>, <<"a">>, <<"b", NewLine, "a">>, <<InvalidByte>>}

BuildRequests == {<<>>, <<"t">>, <<"u", "t">>}

InitBuild ==
    /\ \E edits \in SeqsUpTo(BuildEdits, MaxEdits), ts \in BuildRequests :
          call = [fn |-> "build",
                  file |-> SyncFile(<<"a">>, None, <<LocalSource(<<RootDir, "a">>)>>, edits),
                  tags |-> ts]
    /\ returned = None
    /\ \E data \in BuildData :
          fs = FsOf({<<<<RootDir>>, DirNode>>, <<<<RootDir, "a">>, FileNode(data)>>})
    /\ fs0 = fs
    /\ output = <<>> /\ cwd = <<>>
    /\ skip_first = FALSE /\ no_confirm = FALSE
    /\ memfolder = NoSnapshot
    /\ fetches = <<>>
    /\ iter_order = <<>>
    /\ sync_result = None
    /\ IdleCache
    /\ pc = "start"
    /\ manifests = <<>> /\ tags = <<>> /\ active = None
    /\ IdleGuard
    /\ IdleVars
    /\ IdleLoad

Build ==
    /\ pc = "start"
    /\ call.fn = "build"
    /\ returned' = File_build(call.file, call.tags, fs)
    /\ pc' = "returned"
    /\ UNCHANGED <<cacheVars, first_run, manifests, tags, active, guardVars, varVars, loadVars, syncVars, call>>

NextBuild == Build

SpecBuild == InitBuild /\ [][NextBuild]_vars

Built == pc = "returned" /\ call.fn = "build"

\* The bytes fetched for the file of the call.
FetchedBytes == fs[<<RootDir, "a">>].data

\* An edit is skipped when its tag set is non-empty and disjoint from the
\* active tags.
Skipped(e) == e.tags # {} /\ e.tags \cap Range(call.tags) = {}

\* The edits of the call that are not skipped, in declared order.
AppliedEdits == SelectSeq(call.file.edits, LAMBDA e : ~Skipped(e))

\* The text after the first n applied edits, or the failure of the first of
\* them that fails.
RECURSIVE FoldEdits(_)
FoldEdits(n) ==
    IF n = 0 THEN Ok(FetchedBytes)
    ELSE LET before == FoldEdits(n - 1) IN
         IF ~before.ok THEN before ELSE FileEdit_apply(AppliedEdits[n], before.val)

\* C21: building a file without edits yields the fetched bytes; building a
\* file with edits on fetched text yields the left-to-right fold of the
\* edits that are not skipped, each applied to the output of the one before,
\* and fails with the failure of the first of them that fails; fetched bytes
\* that are no text make the build of a file with edits fail.
C21_EditPipelineIsFold ==
    Built =>
        IF call.file.edits = <<>> THEN returned.res = Ok(FetchedBytes)
        ELSE IF InvalidByte \in Range(FetchedBytes) THEN ~returned.res.ok
        ELSE returned.res = FoldEdits(Len(AppliedEdits))

\* Three edits of which the second is skipped: the build applied the first
\* and then the third, the other order would have given another text, and
\* so would the skipped edit had it been applied.
C21_Witness ==
    /\ Built
    /\ Len(call.file.edits) = 3
    /\ ~Skipped(call.file.edits[1]) /\ call.file.edits[1].tags = {}
    /\ Skipped(call.file.edits[2])
    /\ ~Skipped(call.file.edits[3]) /\ call.file.edits[3].tags # {}
    /\ LET first == FileEdit_apply(call.file.edits[1], FetchedBytes)
           swapped == FileEdit_apply(call.file.edits[3], FetchedBytes)
       IN  /\ first.ok
           /\ returned.res = FileEdit_apply(call.file.edits[3], first.val)
           /\ returned.res.ok
           /\ swapped.ok
           /\ FileEdit_apply(call.file.edits[1], swapped.val) # returned.res
           /\ FileEdit_apply(call.file.edits[2], first.val).ok
           /\ FileEdit_apply(call.file.edits[2], first.val) # first

----------------------------------------------------------------------------
(* The cache directory of cloned repositories and the Ctrl-C handler: SpecCache *)

MaxClones == 2      \* clone_repository calls made by one command

NewDir == [exists |-> TRUE, entries |-> 0]

\* fs::remove_dir_all(cd.path()) (main.rs 286) is not atomic: it first
\* removes what it finds in the directory, then the directory itself.
remove_entries(dirs, d) ==
    IF ~dirs[d].exists THEN [dirs |-> dirs, ok |-> FALSE]
    ELSE [dirs |-> [dirs EXCEPT ![d].entries = 0], ok |-> TRUE]

rmdir(dirs, d) ==
    IF ~dirs[d].exists \/ dirs[d].entries > 0 THEN [dirs |-> dirs, ok |-> FALSE]
    ELSE [dirs |-> [dirs EXCEPT ![d].exists = FALSE], ok |-> TRUE]

InitCache ==
    /\ pc = "main"
    /\ call = [fn |-> "main"]
    /\ returned = Ok(<<>>)
    /\ CACHEDIR = <<>>
    /\ tmpdirs = <<>>
    /\ tmpdir = <<>>
    /\ handler = "unset"
    /\ cloned = 0
    /\ exit_status = <<>>
    /\ first_run = NoRun
    /\ manifests = <<>> /\ tags = <<>> /\ active = None
    /\ IdleGuard
    /\ IdleVars
    /\ IdleLoad
    /\ IdleSync

Running == exit_status = <<>>

cacheFrame == <<first_run, manifests, tags, active, guardVars, varVars, loadVars, syncVars, call>>

\* main.rs 51-59: the handler thread is armed.
SetHandler ==
    /\ Running /\ pc = "main"
    /\ handler' = "idle"
    /\ pc' = "command"
    /\ UNCHANGED <<cacheFrame, returned, CACHEDIR, tmpdirs, tmpdir, cloned, exit_status>>

\* main.rs 61-86: the command either needs another repository cloned or
\* comes to its end, with or without an error.
Command ==
    /\ Running /\ pc = "command"
    /\ \/ /\ cloned < MaxClones
          /\ pc' = "clone_repository"
          /\ UNCHANGED returned
       \/ /\ \E result \in {Ok(<<>>), Err("CommandFailed", <<>>)} : returned' = result
          /\ pc' = "clean_cache_dir"
    /\ UNCHANGED <<cacheFrame, CACHEDIR, tmpdirs, tmpdir, handler, cloned, exit_status>>

\* sources.rs 201-209: CACHEDIR.get().
CloneGet ==
    /\ Running /\ pc = "clone_repository"
    /\ pc' = IF CACHEDIR # <<>> THEN "bare_clone" ELSE "init_cache_dir"
    /\ UNCHANGED <<cacheFrame, returned, CACHEDIR, tmpdirs, tmpdir, handler, cloned, exit_status>>

\* sources.rs 225: TempDir::new() makes the directory, or fails.
TempDirNew ==
    /\ Running /\ pc = "init_cache_dir"
    /\ \/ /\ tmpdirs' = Append(tmpdirs, NewDir)
          /\ tmpdir' = <<Len(tmpdirs) + 1>>
          /\ pc' = "set"
          /\ UNCHANGED returned
       \/ /\ returned' = Err("TempDir", <<>>)
          /\ pc' = "clean_cache_dir"
          /\ UNCHANGED <<tmpdirs, tmpdir>>
    /\ UNCHANGED <<cacheFrame, CACHEDIR, handler, cloned, exit_status>>

\* sources.rs 227-232: CACHEDIR.set(tmpdir); a TempDir the cell refuses is
\* dropped with the error, which removes its directory.
CellSet ==
    /\ Running /\ pc = "set"
    /\ IF CACHEDIR = <<>>
       THEN /\ CACHEDIR' = tmpdir
            /\ pc' = "bare_clone"
            /\ UNCHANGED <<tmpdirs, returned>>
       ELSE /\ tmpdirs' = [tmpdirs EXCEPT ![tmpdir[1]].exists = FALSE]
            /\ returned' = Err("CouldNotInitCachedir", <<>>)
            /\ pc' = "clean_cache_dir"
            /\ UNCHANGED CACHEDIR
    /\ tmpdir' = <<>>
    /\ UNCHANGED <<cacheFrame, handler, cloned, exit_status>>

\* sources.rs 211-220: the clone into the cache directory succeeds or
\* fails; into a directory that is gone it fails or makes the path anew.
BareClone ==
    /\ Running /\ pc = "bare_clone"
    /\ LET d == CACHEDIR[1] IN
       \/ /\ tmpdirs' = [tmpdirs EXCEPT ![d] = [exists |-> TRUE, entries |-> @.entries + 1]]
          /\ cloned' = cloned + 1
          /\ pc' = "command"
          /\ UNCHANGED returned
       \/ /\ returned' = Err("CloneFailed", <<>>)
          /\ pc' = "clean_cache_dir"
          /\ UNCHANGED <<tmpdirs, cloned>>
    /\ UNCHANGED <<cacheFrame, CACHEDIR, tmpdir, handler, exit_status>>

\* main.rs 87 and 283-291, on the main thread.
CleanGet ==
    /\ Running /\ pc = "clean_cache_dir"
    /\ pc' = IF CACHEDIR = <<>> THEN "report" ELSE "remove_entries"
    /\ UNCHANGED <<cacheFrame, returned, CACHEDIR, tmpdirs, tmpdir, handler, cloned, exit_status>>

CleanRemoveEntries ==
    /\ Running /\ pc = "remove_entries"
    /\ LET r == remove_entries(tmpdirs, CACHEDIR[1]) IN
       /\ tmpdirs' = r.dirs
       /\ pc' = IF r.ok THEN "rmdir" ELSE "report"
    /\ UNCHANGED <<cacheFrame, returned, CACHEDIR, tmpdir, handler, cloned, exit_status>>

CleanRmdir ==
    /\ Running /\ pc = "rmdir"
    /\ tmpdirs' = rmdir(tmpdirs, CACHEDIR[1]).dirs
    /\ pc' = "report"
    /\ UNCHANGED <<cacheFrame, returned, CACHEDIR, tmpdir, handler, cloned, exit_status>>

\* main.rs 90-98: exit(1) on an error, the end of main otherwise.
Exit ==
    /\ Running /\ pc = "report"
    /\ exit_status' = IF returned.ok THEN <<0>> ELSE <<1>>
    /\ pc' = "exited"
    /\ UNCHANGED <<cacheFrame, returned, CACHEDIR, tmpdirs, tmpdir, handler, cloned>>

\* The user interrupts: the handler thread of main.rs 51-58 starts.
Interrupt ==
    /\ Running /\ handler = "idle"
    /\ handler' = "clean_cache_dir"
    /\ UNCHANGED <<cacheFrame, pc, returned, CACHEDIR, tmpdirs, tmpdir, cloned, exit_status>>

\* main.rs 52 and 283-291, on the handler thread.
HandlerGet ==
    /\ Running /\ handler = "clean_cache_dir"
    /\ handler' = IF CACHEDIR = <<>> THEN "exit" ELSE "remove_entries"
    /\ UNCHANGED <<cacheFrame, pc, returned, CACHEDIR, tmpdirs, tmpdir, cloned, exit_status>>

HandlerRemoveEntries ==
    /\ Running /\ handler = "remove_entries"
    /\ LET r == remove_entries(tmpdirs, CACHEDIR[1]) IN
       /\ tmpdirs' = r.dirs
       /\ handler' = IF r.ok THEN "rmdir" ELSE "exit"
    /\ UNCHANGED <<cacheFrame, pc, returned, CACHEDIR, tmpdir, cloned, exit_status>>

HandlerRmdir ==
    /\ Running /\ handler = "rmdir"
    /\ tmpdirs' = rmdir(tmpdirs, CACHEDIR[1]).dirs
    /\ handler' = "exit"
    /\ UNCHANGED <<cacheFrame, pc, returned, CACHEDIR, tmpdir, cloned, exit_status>>

\* main.rs 57: exit(2) ends the process, the main thread included.
HandlerExit ==
    /\ Running /\ handler = "exit"
    /\ exit_status' = <<2>>
    /\ handler' = "exited"
    /\ UNCHANGED <<cacheFrame, pc, returned, CACHEDIR, tmpdirs, tmpdir, cloned>>

NextCache ==
    \/ SetHandler \/ Command \/ CloneGet \/ TempDirNew \/ CellSet \/ BareClone
    \/ CleanGet \/ CleanRemoveEntries \/ CleanRmdir \/ Exit
    \/ Interrupt \/ HandlerGet \/ HandlerRemoveEntries \/ HandlerRmdir \/ HandlerExit

SpecCache == InitCache /\ [][NextCache]_vars

Exited == exit_status # <<>>

\* The cache directories that are on disk.
CacheDirsLeft == {d \in 1..Len(tmpdirs) : tmpdirs[d].exists}

\* C22: when the process has exited, whatever its exit status and however
\* the handler thread and the main thread were interleaved, at most one
\* cache directory was made and none is left on disk.
C22_CacheDirGoneAtExit ==
    Exited => (Len(tmpdirs) <= 1 /\ CacheDirsLeft = {})

----------------------------------------------------------------------------
(* Inclusion::get_files on its own, and its use by the parent: SpecInclude *)

MaxChild == 2       \* files declared by the included manifest

IncEdit(content, ts) == [MkEdit(ts) EXCEPT !.content = content]

IncFile(path, ts, hash, sources, edits) ==
    [path |-> path, tags |-> ts, hash |-> hash, sources |-> sources, edits |-> edits]

\* The files the included manifest may declare.
ChildFiles ==
    {IncFile(<<"a">>, {}, None, <<"s1">>,
             <<IncEdit("x", {}), IncEdit("y", {"t"}), IncEdit("z", {"u"})>>),
     IncFile(<<"a">>, {"t"}, "h1", <<"s2">>,
             <<IncEdit("x", {"u"}), IncEdit("y", {}), IncEdit("z", {"t"})>>),
     IncFile(<<RootDir, "a">>, {}, None, <<"s1", "s2">>,
             <<IncEdit("x", {"t", "u"}), IncEdit("y", {"u"})>>),
     IncFile(<<"b">>, {"u"}, "h2", <<"s1">>, <<>>),
     IncFile(<<"b">>, {}, None, <<"s2">>,
             <<IncEdit("x", {"t"}), IncEdit("y", {"t"}), IncEdit("z", {})>>)}

\* The manifest the included manifest may include in its turn.
Grandchild ==
    MkConfig(<<IncFile(<<"g">>, {}, "h3", <<"s3">>,
                       <<IncEdit("x", {"t"}), IncEdit("y", {"u"})>>)>>, <<>>)

IncludeInclusions ==
    {MkInclusion(ref, ts, with_tags, sub) :
        ref \in {"c"}, ts \in {{}, {"t"}, {"u"}},
        with_tags \in {<<>>, <<"t">>, <<"u">>, <<"x">>}, sub \in {<<>>, <<"d">>}}
    \cup {MkInclusion("missing", {}, <<>>, <<>>)}

InitInclude ==
    /\ \E inc \in IncludeInclusions,
          content \in SeqsUpTo(ChildFiles, MaxChild),
          nested \in {<<>>, <<MkInclusion("g", {"t"}, <<"u">>, <<"e">>)>>},
          locals \in {<<>>, <<MkFile(<<"l">>, {"u"}, <<MkEdit({"t"})>>)>>} :
          /\ call = [fn |-> "get_files", inclusion |-> inc]
          /\ manifests = [r \in {"root", "c", "g"} |->
                            IF r = "root" THEN MkConfig(locals, <<inc>>)
                            ELSE IF r = "c" THEN MkConfig(content, nested)
                            ELSE Grandchild]
    /\ tags \in {<<>>, <<"t">>, <<"u">>}
    /\ returned = None
    /\ active = None
    /\ pc = "start"
    /\ IdleGuard
    /\ IdleVars
    /\ IdleLoad
    /\ IdleSync
    /\ IdleCache

\* The inclusion of the root manifest, asked for its files on its own.
GetFiles ==
    /\ pc = "resolved"
    /\ call.fn = "get_files"
    /\ returned' = Inclusion_get_files(call.inclusion)
    /\ pc' = "included"
    /\ UNCHANGED <<cacheVars, first_run, manifests, tags, active, guardVars, varVars, loadVars, syncVars, call>>

NextInclude == GetActive \/ GetFiles

SpecInclude == InitInclude /\ [][NextInclude]_vars

Included == pc = "included" /\ call.fn = "get_files"

\* What the included manifest yields for the tags handed down to it.
ChildActive ==
    IF call.inclusion.config \in DOMAIN manifests
    THEN get_active(manifests[call.inclusion.config], call.inclusion.with_tags)
    ELSE Err("CouldNotLoad", call.inclusion.config)

\* An edit of a child file is kept when it is untagged or one of its tags
\* is a tag of the inclusion.
Kept(e) == e.tags = {} \/ \E t \in e.tags : t \in call.inclusion.tags

\* The kept edits of a list, in their order, each without its tags.
KeptEdits(edits) ==
    LET kept == SelectSeq(edits, Kept) IN
    [i \in 1..Len(kept) |-> [kept[i] EXCEPT !.tags = {}]]

\* C23: every edit of a file returned by get_files is untagged; the edits
\* of such a file are the edits of the child's file that were untagged or
\* carried a tag of the inclusion, in their order; and in the parent's
\* result the file has these same edits whatever tags were requested.
C23_EditsRetaggedAtInclusion ==
    (Included /\ returned.ok) =>
        /\ ChildActive.ok
        /\ Len(returned.val) = Len(ChildActive.val)
        /\ \A k \in 1..Len(returned.val) :
              /\ \A j \in 1..Len(returned.val[k].edits) : returned.val[k].edits[j].tags = {}
              /\ returned.val[k].edits = KeptEdits(ChildActive.val[k].edits)
        /\ active.ok =>
              \A f \in Range(active.val) :
                 f \notin Range(manifests["root"].content) =>
                    \E k \in 1..Len(returned.val) :
                       /\ f.path = returned.val[k].path
                       /\ f.edits = KeptEdits(ChildActive.val[k].edits)

\* An inclusion tagged t of a child file with three edits, tagged u,
\* untagged and tagged t: the second and the third are kept in this order,
\* and the parent, asked for t, returns the file with them.
C23_Witness ==
    /\ Included /\ returned.ok
    /\ call.inclusion.tags = {"t"}
    /\ \E k \in 1..Len(returned.val) :
          /\ Len(ChildActive.val[k].edits) = 3
          /\ ChildActive.val[k].edits[1].tags = {"u"}
          /\ returned.val[k].edits
               = <<without_tags(ChildActive.val[k].edits[2]),
                   without_tags(ChildActive.val[k].edits[3])>>
          /\ ChildActive.val[k].edits[3].tags = {"t"}
          /\ ChildActive.val[k].edits[2].content # ChildActive.val[k].edits[3].content
          /\ active.ok /\ tags = <<"t">>
          /\ returned.val[k] \in Range(active.val)

\* The inclusion's files are returned by the parent when the inclusion is
\* untagged or carries a requested tag.
InclusionRequested ==
    call.inclusion.tags = {} \/ \E t \in call.inclusion.tags : t \in Range(tags)

\* A child path below the inclusion's subfolder, a leading "/" removed.
Rewritten(path) ==
    call.inclusion.subfolder
        \o (IF Len(path) > 0 /\ path[1] = RootDir THEN SubSeq(path, 2, Len(path)) ELSE path)

\* C24: get_files succeeds exactly when the child manifest resolves for the
\* inclusion's with_tags, and then returns one file per file of the child's
\* get_active(with_tags), in the same order, with the path rewritten below
\* the subfolder, the inclusion's tags in place of the child's, and the
\* child's hash and sources; the parent returns these files exactly when
\* the inclusion is untagged or carries a requested tag.
C24_InclusionFiles ==
    Included =>
        /\ returned.ok = ChildActive.ok
        /\ returned.ok =>
              /\ Len(returned.val) = Len(ChildActive.val)
              /\ \A k \in 1..Len(returned.val) :
                    /\ returned.val[k].path = Rewritten(ChildActive.val[k].path)
                    /\ returned.val[k].tags = call.inclusion.tags
                    /\ returned.val[k].hash = ChildActive.val[k].hash
                    /\ returned.val[k].sources = ChildActive.val[k].sources
        /\ (returned.ok /\ active.ok) =>
              LET included == SelectSeq(active.val,
                                  LAMBDA f : f \notin Range(manifests["root"].content))
              IN  included = IF InclusionRequested THEN returned.val ELSE <<>>

\* An inclusion tagged t with subfolder d and with_tags u of a child that
\* declares /a untagged and b tagged u: get_files returns d/a and d/b, both
\* tagged t, b with its hash, and the parent, asked for t, returns both.
C24_Witness ==
    /\ Included /\ returned.ok /\ active.ok
    /\ call.inclusion.tags = {"t"} /\ call.inclusion.subfolder = <<"d">>
    /\ call.inclusion.with_tags = <<"u">>
    /\ tags = <<"t">>
    /\ Len(returned.val) = 2
    /\ ChildActive.val[1].path = <<RootDir, "a">> /\ ChildActive.val[1].tags = {}
    /\ ChildActive.val[2].path = <<"b">> /\ ChildActive.val[2].tags = {"u"}
    /\ returned.val[1].path = <<"d", "a">> /\ returned.val[1].tags = {"t"}
    /\ returned.val[2].path = <<"d", "b">> /\ returned.val[2].tags = {"t"}
    /\ returned.val[2].hash = "h2"
    /\ returned.val[1] \in Range(active.val) /\ returned.val[2] \in Range(active.val)

----------------------------------------------------------------------------
(* sync that fails, and sync run a second time: SpecResync *)

MaxSynced == 2      \* files declared by the manifest that is synced

ResyncFiles ==
    {SyncFile(<<"a">>, compute_hash(X), <<TextSource(X, FALSE)>>, <<AppendEdit(Z, {})>>),
     SyncFile(<<"a">>, None, <<TextSource(X, FALSE)>>, <<>>),
     SyncFile(<<RootDir, "a">>, None, <<DownloadSource("https://y")>>, <<>>),
     SyncFile(<<"b">>, compute_hash(Y), <<DownloadSource("https://y")>>,
              <<AppendEdit(Z, {"t"})>>),
     SyncFile(<<"b">>, None, <<TextSource(Y, FALSE)>>, <<ReplaceEdit(X, Z, FALSE)>>),
     SyncFile(<<"c", "d">>, None, <<LocalSource(<<RootDir, "a">>)>>, <<>>),
     SyncFile(<<ParentDir, "a">>, None, <<TextSource(X, FALSE)>>, <<>>)}

\* The manifest files a sync may be pointed at; with none, loading fails.
ResyncManifests ==
    {<<>>} \cup {[r \in {"root"} |-> MkConfig(content, <<>>)] :
                    content \in SeqsUpTo(ResyncFiles, MaxSynced)}

ResyncFilesystems ==
    {FsOf({<<<<RootDir>>, DirNode>>} \cup outside \cup target) :
        outside \in {{}, {<<<<RootDir, "a">>, FileNode(X)>>}},
        target \in {{},
                    {<<Output, DirNode>>},
                    {<<Output, DirNode>>, <<Output \o <<"a">>, FileNode(X)>>,
                     <<Output \o <<"s">>, FileNode(X)>>},
                    {<<Output, DirNode>>, <<Output \o <<"b">>, DirNode>>,
                     <<Output \o <<"b", "c">>, FileNode(Y)>>}}}

InitResync ==
    /\ manifests \in ResyncManifests
    /\ tags \in {<<>>, <<"t">>}
    /\ fs \in ResyncFilesystems
    /\ fs0 = fs
    /\ output = Output
    /\ cwd = <<RootDir>>
    /\ skip_first \in BOOLEAN
    /\ no_confirm \in BOOLEAN
    /\ memfolder = NoSnapshot
    /\ fetches = <<>>
    /\ iter_order = <<>>
    /\ sync_result = None
    /\ IdleCache
    /\ pc = "start"
    /\ active = None
    /\ IdleGuard
    /\ IdleVars
    /\ IdleLoad
    /\ IdleCall

\* The same command is run again on what the first run left behind.
SyncAgain ==
    /\ pc = "done"
    /\ first_run = NoRun
    /\ first_run' = [fs |-> fs, memfolder |-> memfolder.val]
    /\ fs0' = fs
    /\ memfolder' = NoSnapshot
    /\ fetches' = <<>>
    /\ iter_order' = <<>>
    /\ sync_result' = None
    /\ pc' = "start"
    /\ UNCHANGED <<cacheVars, manifests, tags, active, guardVars, varVars, loadVars, callVars,
                   fs, output, cwd, skip_first, no_confirm>>

NextResync == SyncLoad \/ SyncWrite \/ SyncAgain

SpecResync == InitResync /\ [][NextResync]_vars

\* The manifest cannot be loaded.
LoadFails == "root" \notin DOMAIN manifests

\* A file without a hash is always built from its sources: its fetch or
\* one of its edits fails.
BuildFails(f) == f.hash = None /\ ~File_build(f, tags, fs0).res.ok

\* One of the steps before the write is bound to fail.
SnapshotFails ==
    \/ LoadFails
    \/ ~SyncActive.ok
    \/ HasParentDirPath
    \/ \E i \in 1..Len(SyncActive.val) : BuildFails(SyncActive.val[i])

\* C25: until the snapshot is complete and the confirmation given, sync
\* has changed nothing; a sync that failed without a snapshot or on a
\* refused confirmation has returned an error and left the filesystem as
\* it was; and when manifest loading, tag validation, collision
\* arbitration, the ".." check, a fetch or an edit is bound to fail, sync
\* never gets to the write.
C25_FailureLeavesTargetUntouched ==
    /\ pc \in {"start", "built"} => fs = fs0
    /\ (pc = "failed" /\ (~memfolder.ok \/ sync_result.kind = "NotConfirmed")) =>
          (~sync_result.ok /\ fs = fs0)
    /\ SnapshotFails => (pc \in {"start", "failed"} /\ fs = fs0)

\* A sync of two files that failed on the edit of the second after the
\* first was fetched, on a target that holds files.
C25_Witness ==
    /\ pc = "failed"
    /\ ~memfolder.ok
    /\ sync_result.kind = "ReplacementNotFound"
    /\ Len(SyncActive.val) = 2
    /\ fetches # <<>>
    /\ is_file(fs, output \o <<"a">>) /\ is_file(fs, output \o <<"s">>)
    /\ fs = fs0

SecondRunEnded == first_run # NoRun /\ pc \in {"done", "failed"}

\* C28: when sync, having succeeded, is run again with the same manifest,
\* tags and sources, the second run fails only on a refused confirmation
\* and leaves the filesystem as the first run left it.
C28_SyncIdempotent ==
    SecondRunEnded =>
        /\ fs = first_run.fs
        /\ pc = "failed" => sync_result.kind = "NotConfirmed"

----------------------------------------------------------------------------
(* sync: the writes stay inside the target, one writer per target file *)

\* The entries that are neither the target directory nor below it.
Outside(d) == [p \in {q \in DOMAIN d : ~IsPrefix(output, q)} |-> d[p]]

\* C26: whatever paths the snapshot holds, a sync that has ended, in
\* either write mode, has left every entry outside the target directory as
\* it was and has made none there, and a target directory that was there
\* is still there.
C26_WritesStayInsideTarget ==
    pc \in {"done", "failed"} =>
        /\ Outside(fs) = Outside(fs0)
        /\ is_dir(fs0, output) => is_dir(fs, output)

\* The file of the target directory a snapshot entry is written to.
TargetPath(k) == output \o format_subpath(k)

\* C29: no two entries of the snapshot, which has one entry per file that
\* get_active returned, are written to the same file of the target
\* directory, and after a successful write every target file holds the
\* bytes of its entry, whatever the iteration order of the map was.
C29_OneWriterPerTargetFile ==
    /\ pc \in {"built", "done"} =>
          \A k1, k2 \in DOMAIN memfolder.val : k1 # k2 => TargetPath(k1) # TargetPath(k2)
    /\ pc = "done" =>
          \A k \in DOMAIN memfolder.val :
             /\ is_file(fs, TargetPath(k))
             /\ fs[TargetPath(k)].data = memfolder.val[k]

----------------------------------------------------------------------------
(* clean (main.rs 187-281): SpecClean *)

MaxCleaned == 2     \* files declared by the manifest that is cleaned

CurDir == "."

\* A path that ends in "." or ".." names the directory before it, or the
\* parent of that directory.
ends_in_dots(p) == Len(p) > 0 /\ p[Len(p)] \in {CurDir, ParentDir}

named_dir(p) ==
    IF p[Len(p)] = CurDir THEN Path_parent(p)
    ELSE IF Len(p) > 2 THEN Path_parent(Path_parent(p))
    ELSE <<RootDir>>

\* Path::exists, following a final "." or "..".
path_exists(d, p) ==
    IF ends_in_dots(p) THEN is_dir(d, Path_parent(p)) ELSE exists(d, p)

path_is_file(d, p) == ~ends_in_dots(p) /\ is_file(d, p)

\* fs::remove_dir_all(f) of the loop of clean_command: through a path that
\* ends in "." or ".." it removes what is below the directory so named and
\* then fails on the directory itself.
clean_remove_dir_all(d, p) ==
    IF ~ends_in_dots(p) THEN remove_dir_all(d, p)
    ELSE LET dir == named_dir(p) IN
         FsErr([q \in {r \in DOMAIN d : ~(IsPrefix(dir, r) /\ r # dir)} |-> d[q]],
               "CouldNotRemove", p)

\* get_active_paths up to the sort (main.rs 188-193); the order the sort
\* leaves is not read by clean_command, which collects into a HashSet.
get_active_paths(configpath, ts) ==
    LET config == from_general_path(configpath) IN
    IF ~config.ok THEN config
    ELSE LET files == get_active(config.val, ts) IN
         IF ~files.ok THEN files
         ELSE Ok([i \in 1..Len(files.val) |-> format_subpath(files.val[i].path)])

\* The set clean_command collects in to_delete (main.rs 245-255).
to_delete_of(all_paths, out) == {join(out, <<all_paths[i][1]>>) : i \in 1..Len(all_paths)}

\* The loop of clean_command over to_delete, in the order ord (main.rs 268-278).
RECURSIVE clean_from(_, _, _)
clean_from(d, ord, i) ==
    IF i > Len(ord) THEN FsOk(d)
    ELSE LET f == ord[i] IN
         IF ~path_exists(d, f) THEN clean_from(d, ord, i + 1)
         ELSE LET removed == IF path_is_file(d, f) THEN remove_file(d, f)
                             ELSE clean_remove_dir_all(d, f)
              IN  IF ~removed.res.ok THEN removed
                  ELSE clean_from(removed.fs, ord, i + 1)

CleanFiles ==
    {SyncFile(<<"a">>, None, <<TextSource(X, FALSE)>>, <<>>),
     SyncFile(<<"a", "b">>, None, <<TextSource(X, FALSE)>>, <<>>),
     SyncFile(<<RootDir, "b">>, None, <<TextSource(X, FALSE)>>, <<>>),
     SyncFile(<<"c">>, None, <<TextSource(X, FALSE)>>, <<>>),
     SyncFile(<<ParentDir, "a">>, None, <<TextSource(X, FALSE)>>, <<>>),
     SyncFile(<<CurDir, "a">>, None, <<TextSource(X, FALSE)>>, <<>>)}

CleanOutput == <<RootDir, "p", "out">>

\* The directory p holds the file s next to the output directory, which,
\* when it is there, holds the untracked file u and more.
CleanFilesystems ==
    {FsOf({<<<<RootDir>>, DirNode>>, <<<<RootDir, "p">>, DirNode>>,
           <<<<RootDir, "p", "s">>, FileNode(X)>>} \cup target) :
        target \in {{}}
            \cup {{<<CleanOutput, DirNode>>, <<CleanOutput \o <<"u">>, FileNode(X)>>}
                  \cup {<<CleanOutput \o e[1], e[2]>> : e \in es} :
                     es \in {{},
                             {<<<<"a">>, FileNode(X)>>},
                             {<<<<"a">>, DirNode>>, <<<<"a", "b">>, FileNode(X)>>,
                              <<<<"b">>, FileNode(Y)>>},
                             {<<<<"b">>, DirNode>>, <<<<"c">>, FileNode(X)>>}}}}

InitClean ==
    /\ \E content \in SeqsUpTo(CleanFiles, MaxCleaned) :
          manifests = [r \in {"root"} |-> MkConfig(content, <<>>)]
    /\ tags \in {<<>>, <<"t">>}
    /\ call = [fn |-> "clean_command"]
    /\ returned = None
    /\ fs \in CleanFilesystems
    /\ fs0 = fs
    /\ output = CleanOutput
    /\ cwd = <<RootDir>>
    /\ skip_first \in BOOLEAN
    /\ no_confirm \in BOOLEAN
    /\ memfolder = NoSnapshot
    /\ fetches = <<>>
    /\ iter_order = <<>>
    /\ sync_result = None
    /\ IdleCache
    /\ pc = "start"
    /\ active = None
    /\ IdleGuard
    /\ IdleVars
    /\ IdleLoad

\* clean_command (main.rs 218-281); answer is what the user replies, ord
\* the iteration order of to_delete.
Clean ==
    /\ pc = "start"
    /\ call.fn = "clean_command"
    /\ \E answer \in (IF no_confirm THEN {TRUE} ELSE BOOLEAN) :
          IF ~skip_first
          THEN IF ~answer
               THEN /\ returned' = Err("NotConfirmed", output)
                    /\ UNCHANGED <<fs, iter_order>>
               ELSE LET removed == remove_dir_all(fs, output) IN
                    /\ fs' = removed.fs
                    /\ returned' = removed.res
                    /\ UNCHANGED iter_order
          ELSE LET all_paths == get_active_paths("root", tags) IN
               IF ~all_paths.ok
               THEN /\ returned' = all_paths
                    /\ UNCHANGED <<fs, iter_order>>
               ELSE IF \E i \in 1..Len(all_paths.val) : is_absolute(all_paths.val[i])
               THEN /\ returned' = Err("AbsolutePath", <<>>)
                    /\ UNCHANGED <<fs, iter_order>>
               ELSE \E ord \in Permutations_of(to_delete_of(all_paths.val, output)) :
                       /\ iter_order' = ord
                       /\ IF ~answer
                          THEN /\ returned' = Err("NotConfirmed", output)
                               /\ UNCHANGED fs
                          ELSE LET cleaned == clean_from(fs, ord, 1) IN
                               /\ fs' = cleaned.fs
                               /\ returned' = cleaned.res
    /\ pc' = "cleaned"
    /\ UNCHANGED <<cacheVars, first_run, manifests, tags, active, guardVars, varVars, loadVars,
                   call, fs0, output, cwd, skip_first, no_confirm, memfolder, fetches,
                   sync_result>>

NextClean == Clean

SpecClean == InitClean /\ [][NextClean]_vars

\* The first components of the active paths, a leading "/" left out.
FirstComponents ==
    {format_subpath(SyncActive.val[i].path)[1] : i \in 1..Len(SyncActive.val)}

\* Entry q is a direct child of the output directory named by the first
\* component of an active path, or lies below such a child.
UnderTrackedChild(q) ==
    /\ IsPrefix(output, q)
    /\ Len(q) > Len(output)
    /\ q[Len(output) + 1] \in FirstComponents

\* C27: after clean with skip-first-level nothing was added, and every
\* entry that was there is still there unchanged unless it is, or lies
\* below, a direct child of the output directory named by the first
\* component of an active path; so the output directory, its parent and
\* everything outside the output directory are as they were.
C27_CleanStaysBelowTrackedChildren ==
    (pc = "cleaned" /\ skip_first) =>
        /\ DOMAIN fs \subseteq DOMAIN fs0
        /\ \A q \in DOMAIN fs0 :
              (q \in DOMAIN fs /\ fs[q] = fs0[q]) \/ (SyncActive.ok /\ UnderTrackedChild(q))

----------------------------------------------------------------------------
(* Config::set_variables and the fields marked ignore_variables *)

\* C30: after a successful load every Text source and every Replace or
\* Insert edit that is marked ignore_variables is as it was declared,
\* whatever variables the other fields of the manifest require.
C30_IgnoredTextUntouched ==
    (pc = "loaded" /\ loaded.ok) =>
        \A i \in 1..Len(conf.content) :
           /\ \A j \in 1..Len(conf.content[i].sources) :
                 LET src == conf.content[i].sources[j] IN
                 (src.type = "text" /\ src.ignore_variables) =>
                     loaded.val.content[i].sources[j] = src
           /\ \A j \in 1..Len(conf.content[i].edits) :
                 LET e == conf.content[i].edits[j] IN
                 e.ignore_variables => loaded.val.content[i].edits[j] = e

====
